---- MODULE Spec2Model ----
(***************************************************************************)
(* A model of the plan execution engine (executePlan), the line-range      *)
(* editor (replaceLines) and the history commands (appendHistory,          *)
(* undoHistory, redoHistory, parseIdOrName) of the mai command line tool.  *)
(*                                                                         *)
(* Representation.                                                         *)
(*  - A file content (a JavaScript string) is the non-empty sequence of    *)
(*    its lines, i.e. content.split('\n'); the empty string is <<"">>.     *)
(*    Joining with '\n' is the inverse, so join is left implicit.          *)
(*    A line may end in a carriage return (the line "p\r").                *)
(*  - The working tree is a function from Paths to contents; the empty     *)
(*    sequence <<>> stands for "no such file" (ENOENT) and for the         *)
(*    JavaScript value undefined of an optional string field.              *)
(*  - An optional line number that is undefined is 0 (the schema only      *)
(*    admits positive numbers).                                            *)
(*  - fs.mkdir(dirname, {recursive: true}) and fs.writeFile on the flat    *)
(*    path namespace always succeed; readFile, access, unlink and rename   *)
(*    fail exactly when their (source) path does not exist.                *)
(***************************************************************************)
EXTENDS Integers, Sequences, FiniteSets, TLC

\* ------------------------------------------------------------------ bounds
\* Longest plan handed to executePlan.
MaxOps == 2
\* Number of executePlan calls in one behaviour (entries in the log).
MaxHistory == 1
\* Number of history commands (undo, redo) and outside changes after the
\* last executePlan call that the behaviour follows.
MaxCmds == 2
\* Last value of the millisecond clock.
MaxTime == 2

Paths == {"A", "B"}
Absent == <<>>
Undefined == <<>>
NoLine == 0
NoPath == ""

Max(a, b) == IF a >= b THEN a ELSE b
Min(a, b) == IF a <= b THEN a ELSE b

\* --------------------------------------------------------- string helpers
\* Removing the '\r' that precedes a '\n': the only line of the model's
\* alphabet that ends in '\r' is "p\r".
StripCR(line) == IF line = "p\r" THEN "p" ELSE line

\* data.split(/\r?\n/): every line but the last is followed by '\n', so a
\* trailing '\r' is part of the separator there; the last line keeps it.
SplitLinesRegex(content) ==
  [i \in 1..Len(content) |->
     IF i < Len(content) THEN StripCR(content[i]) ELSE content[i]]

\* content.split('\n').length
CountLines(content) == Len(content)

\* Array.prototype.slice(begin, end) with JavaScript's clamping of both
\* indices (a negative index counts from the end).
SliceIndex(len, k) == IF k < 0 THEN Max(len + k, 0) ELSE Min(k, len)
Slice(arr, begin, end) ==
  SubSeq(arr, SliceIndex(Len(arr), begin) + 1, SliceIndex(Len(arr), end))

\* ------------------------------------------------------------ file system
Exists(tree, p) == p \in Paths /\ tree[p] # Absent

\* fs.writeFile(p, content)
WriteFile(tree, p, content) == [tree EXCEPT ![p] = content]

\* fs.unlink(p), for an existing p
Unlink(tree, p) == [tree EXCEPT ![p] = Absent]

\* fs.rename(old, new), for an existing old: new is replaced if it exists.
RenameFile(tree, old, new) ==
  IF old = new THEN tree
  ELSE [tree EXCEPT ![old] = Absent, ![new] = tree[old]]

\* replaceLines(filePath, newContent, startLine, endLine): the lines with
\* indices [startLine-1, endLine-1) are replaced by the lines of newContent;
\* a falsy startLine means index 0, a falsy endLine means lines.length. Any
\* error (the file cannot be read) is logged and swallowed: the tree is
\* returned unchanged and nothing is thrown.
ReplacedLines(data, newContent, startLine, endLine) ==
  LET lines      == SplitLinesRegex(data)
      startIndex == IF startLine # 0 THEN startLine - 1 ELSE 0
      endIndex   == IF endLine # 0 THEN endLine - 1 ELSE Len(lines)
      before     == Slice(lines, 0, startIndex)
      after      == Slice(lines, endIndex, Len(lines))
  IN  before \o SplitLinesRegex(newContent) \o after

replaceLines(tree, filePath, newContent, startLine, endLine) ==
  IF Exists(tree, filePath)
  THEN WriteFile(tree, filePath,
                 ReplacedLines(tree[filePath], newContent, startLine, endLine))
  ELSE tree

\* ------------------------------------------------------------- operations
\* One record shape for all operation kinds; the fields a kind does not
\* have hold the undefined value of their type.
Op(type, filePath, oldPath, content, startLine, endLine) ==
  [type |-> type, filePath |-> filePath, oldPath |-> oldPath,
   content |-> content, startLine |-> startLine, endLine |-> endLine,
   originalContent |-> Undefined, originalPath |-> NoPath]

Create(p, c)        == Op("create", p, NoPath, c, NoLine, NoLine)
EditFile(p, c)      == Op("edit", p, NoPath, c, NoLine, NoLine)
EditLines(p, c, s, e) == Op("edit", p, NoPath, c, s, e)
Rename(old, new)    == Op("rename", new, old, Undefined, NoLine, NoLine)
Delete(p)           == Op("delete", p, NoPath, Undefined, NoLine, NoLine)
Response(c)         == Op("response", NoPath, NoPath, c, NoLine, NoLine)

\* AiOperationSchema.parse(op) succeeds: filePath (and oldPath of a rename)
\* has at least one character, content is a string where required, and a
\* line bound that is given is a positive number.
validateOperation(op) ==
  CASE op.type = "response" -> op.content # Undefined
    [] op.type = "create"   -> op.filePath # NoPath /\ op.content # Undefined
    [] op.type = "edit"     -> /\ op.filePath # NoPath
                               /\ op.content # Undefined
                               /\ op.startLine >= 0
                               /\ op.endLine >= 0
    [] op.type = "rename"   -> op.filePath # NoPath /\ op.oldPath # NoPath
    [] op.type = "delete"   -> op.filePath # NoPath
    [] OTHER                -> FALSE

validateOperations(operations) ==
  \A i \in 1..Len(operations) : validateOperation(operations[i])

\* ------------------------------------------------------------- identifiers
\* Ids, names and references typed by the operator are strings that the
\* code inspects character by character: sequences of one-character strings.
DigitChars == <<"0", "1", "2", "3", "4", "5", "6", "7", "8", "9">>
IsDigit(ch) == \E d \in 1..10 : DigitChars[d] = ch
DigitValue(ch) == (CHOOSE d \in 1..10 : DigitChars[d] = ch) - 1
NoName == <<>>

\* Number.prototype.toString(): the decimal digits of a natural number.
RECURSIVE DecimalString(_)
DecimalString(n) ==
  IF n < 10 THEN <<DigitChars[n + 1]>>
  ELSE DecimalString(n \div 10) \o <<DigitChars[(n % 10) + 1]>>

\* parseInt(digits, 10) of a non-empty string of decimal digits.
RECURSIVE ParseInt(_)
ParseInt(digits) ==
  IF digits = <<>> THEN 0
  ELSE 10 * ParseInt(SubSeq(digits, 1, Len(digits) - 1))
       + DigitValue(digits[Len(digits)])

\* idOrName.startsWith('~') && /^\~\d+$/.test(idOrName)
IsIndexFormat(idOrName) ==
  /\ Len(idOrName) >= 2
  /\ idOrName[1] = "~"
  /\ \A k \in 2..Len(idOrName) : IsDigit(idOrName[k])

\* history.find(h => h.id === idOrName || h.name === idOrName): the position
\* of the first match, 0 if there is none.
FindEntry(idOrName, hist) ==
  LET hits == {k \in 1..Len(hist) :
                 \/ hist[k].id = idOrName
                 \/ (hist[k].name # NoName /\ hist[k].name = idOrName)}
  IN  IF hits = {} THEN 0 ELSE CHOOSE k \in hits : \A j \in hits : k <= j

\* parseIdOrName, were ~n an index counted from zero.
parseIdOrName_ZeroBased(idOrName, hist) ==
  IF IsIndexFormat(idOrName)
  THEN LET index == ParseInt(SubSeq(idOrName, 2, Len(idOrName)))
       IN  IF index >= 0 /\ index < Len(hist)
           THEN [error |-> "", pos |-> index + 1, index |-> index,
                 isIndex |-> TRUE]
           ELSE [error |-> "range", pos |-> 0, index |-> 0 - 1,
                 isIndex |-> TRUE]
  ELSE LET found == FindEntry(idOrName, hist)
       IN  IF found # 0
           THEN [error |-> "", pos |-> found, index |-> found - 1,
                 isIndex |-> FALSE]
           ELSE [error |-> "notfound", pos |-> 0, index |-> 0 - 1,
                 isIndex |-> FALSE]

\* parseIdOrName(idOrName, history). The result is a record: error is "" when
\* an entry was found or names the Error thrown ("range", "notfound");
\* index is the zero-based index returned, pos = index + 1 the position of
\* the entry in the list.
parseIdOrName(idOrName, hist) ==
  IF IsIndexFormat(idOrName)
  THEN LET index == ParseInt(SubSeq(idOrName, 2, Len(idOrName)))
       IN  IF index > 0 /\ index <= Len(hist)
           THEN [error |-> "", pos |-> index, index |-> index - 1,
                 isIndex |-> TRUE]
           ELSE [error |-> "range", pos |-> 0, index |-> 0 - 1,
                 isIndex |-> TRUE]
  ELSE LET found == FindEntry(idOrName, hist)
       IN  IF found # 0
           THEN [error |-> "", pos |-> found, index |-> found - 1,
                 isIndex |-> FALSE]
           ELSE [error |-> "notfound", pos |-> 0, index |-> 0 - 1,
                 isIndex |-> FALSE]

\* ------------------------------------------------------------------ state
VARIABLES
  fs,        \* the working tree: path -> content, Absent if no such file
  history,   \* the array stored in .mai-history.json, newest first
  now,       \* Date.now()
  pc,        \* "idle", or "exec" while executePlan is in its loop
  ex,        \* the local variables of the executePlan call in progress
  out,       \* what the last command reported to its caller and operator
  preFs,     \* the working tree when the last executePlan call started
  postFs,    \* the working tree when the last executePlan call returned
  trail,     \* the commands completed since (and including) that call,
             \* each with the position of the log entry it acted on
  rv,        \* the local variables of the reviewAndExecutePlan call
  inv        \* the appendHistory calls in progress: what each has loaded

vars == <<fs, history, now, pc, ex, out, preFs, postFs, trail, rv, inv>>

\* A trail item: pos is 0 for a command that resolved no entry.
Did(cmd, pos) == [cmd |-> cmd, pos |-> pos]

NoEx ==
  [operations |-> <<>>, executedOperations |-> <<>>, i |-> 0,
   fileOriginalContents |-> [p \in Paths |-> Undefined],
   fileDeltas |-> [p \in Paths |-> 0],
   executionResults |-> <<>>, successfulOps |-> 0, failedOps |-> 0,
   raisedOps |-> 0, stopped |-> FALSE]

\* No review in progress; choice is the operator's last menu choice.
NoReview ==
  [pc |-> "none", currentOperations |-> <<>>, choice |-> "none",
   forceApply |-> FALSE]

\* The tool invocations that may append concurrently, none of them inside
\* appendHistory.
Invocations == {1, 2}
NoCalls ==
  [k \in Invocations |-> [pc |-> "idle", history |-> <<>>, entry |-> <<>>]]

\* cmd: the command; ref: the reference it was given; pos: the position in
\* the log of the entry it resolved (0: none); threw/error: how it ended;
\* force, hasChanges, asked, shouldContinue: redo's flag, the outcome of its
\* divergence check, whether it prompted and what the operator answered.
Report(cmd) ==
  [cmd |-> cmd, ref |-> <<>>, pos |-> 0, threw |-> FALSE, error |-> "",
   force |-> FALSE, hasChanges |-> FALSE, asked |-> FALSE,
   shouldContinue |-> FALSE]

\* ------------------------------------------------------------ executePlan
\* filesToBackup: the filePath of every edit and delete, the oldPath of
\* every rename.
filesToBackup(operations) ==
  {operations[k].filePath : k \in {j \in 1..Len(operations) :
                                     operations[j].type \in {"edit", "delete"}}}
  \cup
  {operations[k].oldPath : k \in {j \in 1..Len(operations) :
                                    /\ operations[j].type = "rename"
                                    /\ operations[j].oldPath # NoPath}}

\* fileOriginalContents: the content read from each of these paths; a path
\* that cannot be read is skipped.
BackupContents(tree, operations) ==
  [p \in Paths |->
     IF p \in filesToBackup(operations) /\ Exists(tree, p)
     THEN tree[p] ELSE Undefined]

\* The assignments at the head of the try block: an edit or a delete takes
\* the backup of its path, a rename records its source path.
WithOriginals(op, backups) ==
  CASE op.type \in {"edit", "delete"} ->
         [op EXCEPT !.originalContent =
            IF op.filePath \in Paths THEN backups[op.filePath] ELSE Undefined]
    [] op.type = "rename" /\ op.oldPath # NoPath ->
         [op EXCEPT !.originalPath = op.oldPath]
    [] OTHER -> op

\* netDelta, were the size of the replaced range left out.
NetDelta_NewLinesOnly(op) == CountLines(op.content)

\* netDelta of a ranged edit: newLineCount - originalRangeSize.
NetDelta(op) ==
  LET originalRangeSize == op.endLine - op.startLine
      newLineCount      == CountLines(op.content)
  IN  newLineCount - originalRangeSize

\* fileDeltas.delete(filePath), were the entry of the path left in the map.
DeleteDelta_Keeping(deltas, filePath) == deltas

\* fileDeltas.delete(filePath): the next fileDeltas.get(filePath) || 0 of the
\* path reads 0.
DeleteDelta(deltas, filePath) == [deltas EXCEPT ![filePath] = 0]

\* The switch of the loop body applied to one operation. ok is FALSE when a
\* statement of the case throws, raised is TRUE when a file system call made
\* for the operation raised an error (thrown on, or caught on the way);
\* tree and deltas are the working tree and the fileDeltas map afterwards.
RunOperation(op, tree, deltas) ==
  CASE op.type = "create" ->
         [ok |-> TRUE, raised |-> FALSE,
          tree |-> WriteFile(tree, op.filePath, op.content), deltas |-> deltas]
    [] op.type = "edit" ->
         IF op.startLine # NoLine /\ op.endLine # NoLine
         THEN LET cumDelta          == deltas[op.filePath]
                  effectiveStart    == op.startLine + cumDelta
                  effectiveEnd      == op.endLine + cumDelta
                  netDelta          == NetDelta(op)
              IN  [ok |-> TRUE, raised |-> ~Exists(tree, op.filePath),
                   tree |-> replaceLines(tree, op.filePath, op.content,
                                         effectiveStart, effectiveEnd),
                   deltas |-> [deltas EXCEPT ![op.filePath] = cumDelta + netDelta]]
         ELSE [ok |-> TRUE, raised |-> FALSE,
               tree |-> WriteFile(tree, op.filePath, op.content),
               deltas |-> DeleteDelta(deltas, op.filePath)]
    [] op.type = "rename" ->
         IF Exists(tree, op.oldPath)
         THEN [ok |-> TRUE, raised |-> FALSE,
               tree |-> RenameFile(tree, op.oldPath, op.filePath),
               deltas |-> deltas]
         ELSE [ok |-> FALSE, raised |-> TRUE, tree |-> tree, deltas |-> deltas]
    [] op.type = "delete" ->
         IF Exists(tree, op.filePath)
         THEN [ok |-> TRUE, raised |-> FALSE,
               tree |-> Unlink(tree, op.filePath), deltas |-> deltas]
         ELSE [ok |-> FALSE, raised |-> TRUE, tree |-> tree, deltas |-> deltas]
    [] OTHER -> [ok |-> FALSE, raised |-> TRUE, tree |-> tree, deltas |-> deltas]

\* `${op.type} ${op.filePath} // ${op.comment}` joined by '; ' (the plans of
\* the model carry no comment).
RECURSIVE operationsDescription(_)
operationsDescription(operations) ==
  IF operations = <<>> THEN ""
  ELSE operations[1].type \o " " \o operations[1].filePath \o " // undefined"
       \o (IF Len(operations) > 1 THEN "; " ELSE "")
       \o operationsDescription(Tail(operations))

\* executionDescription: two lines, the counts and the operations.
executionDescription(successfulOps, totalOps, failedOps, operations) ==
  << ToString(successfulOps) \o "/" \o ToString(totalOps)
       \o " (" \o ToString(failedOps) \o ")",
     operationsDescription(operations) >>

\* HistoryEntryOf, were only the operations that succeeded recorded.
HistoryEntryOf_SucceededOnly(x, planDescription, time) ==
  LET description ==
        executionDescription(x.successfulOps, Len(x.executionResults),
                             x.failedOps, x.executedOperations)
      succeeded ==
        {x.executionResults[k].index :
           k \in {j \in 1..Len(x.executionResults) :
                    x.executionResults[j].success}}
      kept == SelectSeq([k \in 1..Len(x.executedOperations) |-> k],
                        LAMBDA k : k \in succeeded)
  IN  [id |-> DecimalString(time), name |-> NoName, timestamp |-> time,
       prompt |-> planDescription, description |-> description,
       operations |-> <<Response(description)>>
                      \o [k \in 1..Len(kept) |-> x.executedOperations[kept[k]]]]

\* The HistoryEntry built after the loop: a response operation holding the
\* description, followed by all of executedOperations.
HistoryEntryOf(x, planDescription, time) ==
  LET description ==
        executionDescription(x.successfulOps, Len(x.executionResults),
                             x.failedOps, x.executedOperations)
  IN  [id |-> DecimalString(time), name |-> NoName, timestamp |-> time,
       prompt |-> planDescription, description |-> description,
       operations |-> <<Response(description)>> \o x.executedOperations]

\* appendHistory, were the entry pushed to the end of the array.
appendHistory_Push(hist, entry) == hist \o <<entry>>

\* appendHistory(entry): load, unshift, save.
appendHistory(hist, entry) == <<entry>> \o hist

\* ------------------------------------------------------------ undoHistory
\* entry.operations.filter(op => op.type !== 'response')
RECURSIVE FileOperations(_)
FileOperations(operations) ==
  IF operations = <<>> THEN <<>>
  ELSE (IF operations[1].type # "response" THEN <<operations[1]>> ELSE <<>>)
       \o FileOperations(Tail(operations))

\* reverse(), were the array left in its order.
Reverse_Forward(arr) == arr

\* Array.prototype.reverse()
Reverse(arr) == [k \in 1..Len(arr) |-> arr[Len(arr) + 1 - k]]

\* UndoOperation, were a rename undone like an edit (from a content backup).
UndoOperation_RenameByContent(op, tree) ==
  CASE op.type = "create" ->
         IF Exists(tree, op.filePath) THEN Unlink(tree, op.filePath) ELSE tree
    [] op.type \in {"edit", "rename", "delete"} ->
         IF op.originalContent # Undefined
         THEN WriteFile(tree, op.filePath, op.originalContent) ELSE tree
    [] OTHER -> tree

\* The switch of undoHistory's loop for one operation. A create is undone
\* by unlink (ENOENT ignored); an edit or a delete by writing back
\* originalContent when the operation carries one; a rename by renaming
\* filePath to originalPath when the operation carries one (a missing
\* filePath makes rename throw, which the loop catches and logs).
UndoOperation(op, tree) ==
  CASE op.type = "create" ->
         IF Exists(tree, op.filePath) THEN Unlink(tree, op.filePath) ELSE tree
    [] op.type = "edit" ->
         IF op.originalContent # Undefined
         THEN WriteFile(tree, op.filePath, op.originalContent) ELSE tree
    [] op.type = "rename" ->
         IF op.originalPath # NoPath /\ Exists(tree, op.filePath)
         THEN RenameFile(tree, op.filePath, op.originalPath) ELSE tree
    [] op.type = "delete" ->
         IF op.originalContent # Undefined
         THEN WriteFile(tree, op.filePath, op.originalContent) ELSE tree
    [] OTHER -> tree

\* UndoAll, were the loop left at the first inversion that cannot be
\* performed.
RECURSIVE UndoAll_Aborting(_, _)
UndoAll_Aborting(operations, tree) ==
  IF operations = <<>> THEN tree
  ELSE LET op == operations[1]
           skipped ==
             \/ op.type \in {"edit", "delete"} /\ op.originalContent = Undefined
             \/ op.type = "create" /\ ~Exists(tree, op.filePath)
             \/ op.type = "rename"
                  /\ (op.originalPath = NoPath \/ ~Exists(tree, op.filePath))
       IN  IF skipped THEN tree
           ELSE UndoAll_Aborting(Tail(operations), UndoOperation(op, tree))

\* for (const op of operations) tree = step(op, tree)
RECURSIVE UndoAll(_, _)
UndoAll(operations, tree) ==
  IF operations = <<>> THEN tree
  ELSE UndoAll(Tail(operations), UndoOperation(operations[1], tree))

\* The working tree after undoHistory's loop over the entry.
UndoEntry(entry, tree) ==
  UndoAll(Reverse(FileOperations(entry.operations)), tree)

\* ------------------------------------------------------------ redoHistory
\* OperationChanged, were the content compared for an edit only.
OperationChanged_EditOnly(op, tree) ==
  CASE op.type = "edit" ->
         Exists(tree, op.filePath) /\ tree[op.filePath] # op.content
    [] op.type = "rename" ->
         Exists(tree, op.filePath) \/ ~Exists(tree, op.oldPath)
    [] op.type = "delete" -> Exists(tree, op.filePath)
    [] OTHER -> FALSE

\* The divergence check for one operation: does it set hasChanges?
OperationChanged(op, tree) ==
  CASE op.type \in {"edit", "create"} ->
         Exists(tree, op.filePath) /\ tree[op.filePath] # op.content
    [] op.type = "rename" ->
         Exists(tree, op.filePath) \/ ~Exists(tree, op.oldPath)
    [] op.type = "delete" -> Exists(tree, op.filePath)
    [] OTHER -> FALSE

\* hasChanges after the check loop, evaluated on the tree as it is before
\* anything is re-applied.
HasChanges(operations, tree) ==
  \E k \in 1..Len(operations) : OperationChanged(operations[k], tree)

\* The switch of the re-apply loop for one operation: create and edit write
\* op.content to filePath, a rename moves oldPath to filePath if oldPath
\* exists, a delete unlinks filePath (ENOENT ignored).
RedoOperation(op, tree) ==
  CASE op.type \in {"create", "edit"} ->
         WriteFile(tree, op.filePath, op.content)
    [] op.type = "rename" ->
         IF op.oldPath # NoPath /\ Exists(tree, op.oldPath)
         THEN RenameFile(tree, op.oldPath, op.filePath) ELSE tree
    [] op.type = "delete" ->
         IF Exists(tree, op.filePath) THEN Unlink(tree, op.filePath) ELSE tree
    [] OTHER -> tree

RECURSIVE RedoAll(_, _)
RedoAll(operations, tree) ==
  IF operations = <<>> THEN tree
  ELSE RedoAll(Tail(operations), RedoOperation(operations[1], tree))

\* The working tree after redoHistory's re-apply loop over the entry.
RedoEntry(entry, tree) == RedoAll(FileOperations(entry.operations), tree)

\* ---------------------------------------------------------------- inputs
\* The working trees a behaviour starts from: each path is missing or holds
\* its initial content.
InitialContent == [p \in Paths |-> IF p = "A" THEN <<"a", "b">> ELSE <<"c">>]
InitialTrees ==
  {t \in [Paths -> {Absent} \cup {InitialContent[p] : p \in Paths}] :
     \A p \in Paths : t[p] \in {Absent, InitialContent[p]}}

\* The operations plans are built from: every kind on every path, and one
\* operation the schema rejects (an empty filePath).
NewContent == <<"n">>
PlanOps ==
  {Create(p, NewContent) : p \in Paths}
  \cup {EditFile(p, NewContent) : p \in Paths}
  \cup {EditLines(p, NewContent, 1, 2) : p \in Paths}
  \cup {Rename(p, q) : <<p, q>> \in {r \in Paths \X Paths : r[1] # r[2]}}
  \cup {Delete(p) : p \in Paths}
  \cup {Create(NoPath, NewContent)}

RECURSIVE SeqsUpTo(_, _)
SeqsUpTo(S, n) ==
  IF n = 0 THEN {<<>>}
  ELSE LET shorter == SeqsUpTo(S, n - 1)
       IN  shorter \cup {Append(q, x) : q \in {r \in shorter : Len(r) = n - 1},
                                        x \in S}

Plans == SeqsUpTo(PlanOps, MaxOps) \ {<<>>}

PlanDescription == "AI plan execution"

\* ---------------------------------------------------------------- actions
Init ==
  /\ fs \in InitialTrees
  /\ history = <<>>
  /\ now = 1
  /\ pc = "idle"
  /\ ex = NoEx
  /\ out = Report("none")
  /\ preFs = fs
  /\ postFs = fs
  /\ trail = <<>>
  /\ rv = NoReview
  /\ inv = NoCalls

\* The millisecond clock advances between two commands (followed while a
\* later executePlan call can still read it).
Tick ==
  /\ pc = "idle"
  /\ Len(history) < MaxHistory
  /\ now < MaxTime
  /\ now' = now + 1
  /\ UNCHANGED <<fs, history, pc, ex, out, preFs, postFs, trail, rv, inv>>

\* ExecStart, were the plan not validated before the loop.
ExecStart_Unvalidated(operations) ==
  /\ pc = "idle"
  /\ Len(history) < MaxHistory
  /\ pc' = "exec"
  /\ ex' = [NoEx EXCEPT
              !.operations = operations,
              !.executedOperations = operations,
              !.i = 1,
              !.fileOriginalContents = BackupContents(fs, operations)]
  /\ preFs' = fs
  /\ trail' = <<>>
  /\ out' = Report("exec")
  /\ UNCHANGED <<fs, history, now, postFs, rv, inv>>

\* executePlan up to its loop: the backups are read, the plan is validated
\* (an invalid plan makes the call throw here) and the locals are set up.
\* The call is followed while the log holds fewer than limit entries.
ExecStartUpTo(operations, limit) ==
  /\ pc = "idle"
  /\ Len(history) < limit
  /\ IF validateOperations(operations)
     THEN /\ pc' = "exec"
          /\ ex' = [NoEx EXCEPT
                      !.operations = operations,
                      !.executedOperations = operations,
                      !.i = 1,
                      !.fileOriginalContents = BackupContents(fs, operations)]
          /\ preFs' = fs
          /\ trail' = <<>>
          /\ out' = Report("exec")
          /\ UNCHANGED postFs
     ELSE /\ out' = [Report("exec") EXCEPT !.threw = TRUE, !.error = "invalid"]
          /\ UNCHANGED <<pc, ex, preFs, postFs, trail>>
  /\ UNCHANGED <<fs, history, now, rv, inv>>

\* executePlan calls are followed while the log holds fewer than MaxHistory
\* entries.
ExecStart(operations) == ExecStartUpTo(operations, MaxHistory)

\* One iteration of the loop over executedOperations: the operation takes
\* its originals and is run; on failure the operator is asked whether to
\* continue with the remaining operations (continueExecution).
ExecOp(continueExecution) ==
  /\ pc = "exec"
  /\ ~ex.stopped
  /\ ex.i <= Len(ex.executedOperations)
  /\ LET op  == WithOriginals(ex.executedOperations[ex.i], ex.fileOriginalContents)
         run == RunOperation(op, fs, ex.fileDeltas)
     IN  /\ fs' = run.tree
         /\ ex' = [ex EXCEPT
                     !.executedOperations[ex.i] = op,
                     !.fileDeltas = run.deltas,
                     !.executionResults =
                        Append(@, [index |-> ex.i, success |-> run.ok]),
                     !.successfulOps = IF run.ok THEN @ + 1 ELSE @,
                     !.failedOps = IF run.ok THEN @ ELSE @ + 1,
                     !.raisedOps = IF run.raised THEN @ + 1 ELSE @,
                     !.stopped = ~run.ok /\ ~continueExecution,
                     !.i = @ + 1]
  /\ UNCHANGED <<history, now, pc, out, preFs, postFs, trail, rv, inv>>

\* ExecFinish, were the working tree put back after a failed plan.
ExecFinish_RollingBack ==
  /\ pc = "exec"
  /\ ex.stopped \/ ex.i > Len(ex.executedOperations)
  /\ history' = appendHistory(history, HistoryEntryOf(ex, PlanDescription, now))
  /\ out' = [Report("exec") EXCEPT
               !.threw = ex.failedOps > 0,
               !.error = IF ex.failedOps > 0 THEN "incomplete" ELSE ""]
  /\ pc' = "idle"
  /\ fs' = IF ex.failedOps > 0 THEN preFs ELSE fs
  /\ postFs' = fs'
  /\ trail' = <<Did("exec", 1)>>
  /\ UNCHANGED <<now, ex, preFs, rv, inv>>

\* executePlan after its loop: the history entry is appended whatever the
\* outcome, then the call throws if an operation failed.
ExecFinish ==
  /\ pc = "exec"
  /\ ex.stopped \/ ex.i > Len(ex.executedOperations)
  /\ history' = appendHistory(history, HistoryEntryOf(ex, PlanDescription, now))
  /\ out' = [Report("exec") EXCEPT
               !.threw = ex.failedOps > 0,
               !.error = IF ex.failedOps > 0 THEN "incomplete" ELSE ""]
  /\ pc' = "idle"
  /\ postFs' = fs
  /\ trail' = <<Did("exec", 1)>>
  /\ UNCHANGED <<fs, now, ex, preFs, rv, inv>>

\* Undo, redo and outside changes are followed for MaxCmds commands after
\* an executePlan call.
CanCommand == pc = "idle" /\ Len(trail) < MaxCmds + 1

\* The references the operator types.
References == {<<"~", "1">>, <<"~", "2">>, <<"1">>, <<"z">>}

\* undoHistory, were the undone entry emptied of its operations in the log.
Undo_Emptying(idOrName) ==
  /\ CanCommand
  /\ LET found == parseIdOrName(idOrName, history)
     IN  IF history = <<>> \/ found.error # ""
         THEN /\ out' = [Report("undo") EXCEPT
                           !.ref = idOrName,
                           !.error = IF history = <<>> THEN "empty"
                                     ELSE found.error]
              /\ fs' = fs
              /\ history' = history
         ELSE /\ out' = [Report("undo") EXCEPT !.ref = idOrName,
                                               !.pos = found.pos]
              /\ fs' = UndoEntry(history[found.pos], fs)
              /\ history' = [history EXCEPT ![found.pos].operations = <<>>]
  /\ trail' = Append(trail, Did("undo", out'.pos))
  /\ UNCHANGED <<now, pc, ex, preFs, postFs, rv, inv>>

\* undoHistory, were the newest entry dropped from the log once undone.
Undo_Popping(idOrName) ==
  /\ CanCommand
  /\ LET found == parseIdOrName(idOrName, history)
     IN  IF history = <<>>
         THEN /\ out' = [Report("undo") EXCEPT !.ref = idOrName,
                                               !.error = "empty"]
              /\ fs' = fs
              /\ history' = history
         ELSE IF found.error # ""
         THEN /\ out' = [Report("undo") EXCEPT !.ref = idOrName,
                                               !.error = found.error]
              /\ fs' = fs
              /\ history' = history
         ELSE /\ out' = [Report("undo") EXCEPT !.ref = idOrName,
                                               !.pos = found.pos]
              /\ fs' = UndoEntry(history[found.pos], fs)
              /\ history' = Tail(history)
  /\ trail' = Append(trail, Did("undo", out'.pos))
  /\ UNCHANGED <<now, pc, ex, preFs, postFs, rv, inv>>

\* undoHistory(idOrName): returns early on an empty log or an unresolved
\* reference, else inverts the entry's file operations in reverse order.
\* The log is not written.
Undo(idOrName) ==
  /\ CanCommand
  /\ LET found == parseIdOrName(idOrName, history)
     IN  IF history = <<>>
         THEN /\ out' = [Report("undo") EXCEPT !.ref = idOrName,
                                               !.error = "empty"]
              /\ fs' = fs
         ELSE IF found.error # ""
         THEN /\ out' = [Report("undo") EXCEPT !.ref = idOrName,
                                               !.error = found.error]
              /\ fs' = fs
         ELSE /\ out' = [Report("undo") EXCEPT !.ref = idOrName,
                                               !.pos = found.pos]
              /\ fs' = UndoEntry(history[found.pos], fs)
  /\ trail' = Append(trail, Did("undo", out'.pos))
  /\ UNCHANGED <<history, now, pc, ex, preFs, postFs, rv, inv>>

\* redoHistory(idOrName, force): after the divergence check, a call without
\* force that found changes asks the operator (shouldContinue, then
\* useForce); declining returns, useForce re-enters with force = true, which
\* repeats the check without asking and re-applies. Otherwise the file
\* operations are re-applied in order.
Redo(idOrName, force, shouldContinue, useForce) ==
  /\ CanCommand
  /\ LET found == parseIdOrName(idOrName, history)
     IN  IF history = <<>>
         THEN /\ out' = [Report("redo") EXCEPT !.ref = idOrName,
                                               !.error = "empty",
                                               !.force = force]
              /\ fs' = fs
         ELSE IF found.error # ""
         THEN /\ out' = [Report("redo") EXCEPT !.ref = idOrName,
                                               !.error = found.error,
                                               !.force = force]
              /\ fs' = fs
         ELSE LET entry      == history[found.pos]
                  hasChanges == HasChanges(FileOperations(entry.operations), fs)
                  asked      == hasChanges /\ ~force
              IN  /\ out' = [Report("redo") EXCEPT
                               !.ref = idOrName,
                               !.pos = found.pos,
                               !.force = force,
                               !.hasChanges = hasChanges,
                               !.asked = asked,
                               !.shouldContinue = asked /\ shouldContinue]
                  /\ fs' = IF asked /\ ~shouldContinue THEN fs
                           ELSE RedoEntry(entry, fs)
  /\ trail' = Append(trail, Did("redo", out'.pos))
  /\ UNCHANGED <<history, now, pc, ex, preFs, postFs, rv, inv>>

\* Somebody else edits or removes a file of the working tree after a plan
\* was executed (a change before the first plan is another initial tree).
OutsideContent == <<"e">>
ExternalChange(p, content) ==
  /\ CanCommand
  /\ history # <<>>
  /\ fs[p] # content
  /\ fs' = [fs EXCEPT ![p] = content]
  /\ trail' = Append(trail, Did("ext", 0))
  /\ UNCHANGED <<history, now, pc, ex, out, preFs, postFs, rv, inv>>

Next ==
  \/ Tick
  \/ \E operations \in Plans : ExecStart(operations)
  \/ \E continueExecution \in BOOLEAN : ExecOp(continueExecution)
  \/ ExecFinish
  \/ \E idOrName \in References : Undo(idOrName)
  \/ \E idOrName \in References, force, shouldContinue, useForce \in BOOLEAN :
        Redo(idOrName, force, shouldContinue, useForce)
  \/ \E p \in Paths, content \in {Absent, OutsideContent} :
        ExternalChange(p, content)

Spec == Init /\ [][Next]_vars

\* ------------------------------------------------- ranged edits of a plan
\* Plans of up to MaxEdits ranged edits, with bounds up to MaxLine, on
\* files of up to three lines.
MaxEdits == 3
MaxLine == 4

DeltaFiles ==
  {<<"">>, <<"a">>, <<"a", "b">>, <<"a", "b", "c">>, <<"p\r", "b", "p\r">>}
DeltaContents == {<<"X">>, <<"p\r", "Y">>}
DeltaEdits(p) ==
  {EditLines(p, c, s, e) : c \in DeltaContents,
                           s \in 1..MaxLine, e \in 1..MaxLine}

\* The edits of one file come top to bottom and do not overlap, with
\* bounds [startLine, endLine) against the file as it is before the plan.
TopToBottom(edits) ==
  /\ \A k \in 1..Len(edits) : edits[k].startLine <= edits[k].endLine
  /\ \A k \in 1..(Len(edits) - 1) : edits[k].endLine <= edits[k + 1].startLine

EditsOf(operations, p) ==
  SelectSeq(operations, LAMBDA op : op.type = "edit" /\ op.filePath = p)

\* The lists of up to n edits of file p that start at line from or below
\* it and obey the rule.
RECURSIVE EditChains(_, _, _)
EditChains(p, from, n) ==
  IF n = 0 THEN {<<>>}
  ELSE {<<>>} \cup
       UNION {{<<e>> \o rest : rest \in EditChains(p, e.endLine, n - 1)} :
                e \in {d \in DeltaEdits(p) : /\ from <= d.startLine
                                             /\ d.startLine <= d.endLine}}

\* The plans of ranged edits: edits of A, and one or two edits of A with
\* an edit of B before, between or after them.
OtherEdit == EditLines("B", <<"X">>, 1, 2)
DeltaPlans ==
  {plan \in EditChains("A", 1, MaxEdits) : plan # <<>> /\ TopToBottom(plan)}
  \cup
  UNION {{SubSeq(plan, 1, k) \o <<OtherEdit>> \o SubSeq(plan, k + 1, Len(plan)) :
            k \in 0..Len(plan)} :
           plan \in EditChains("A", 1, 2) \ {<<>>}}

InitDelta ==
  /\ fs \in {[p \in Paths |-> IF p = "A" THEN f ELSE InitialContent["B"]] :
               f \in DeltaFiles}
  /\ history = <<>>
  /\ now = 1
  /\ pc = "idle"
  /\ ex = NoEx
  /\ out = Report("none")
  /\ preFs = fs
  /\ postFs = fs
  /\ trail = <<>>
  /\ rv = NoReview
  /\ inv = NoCalls

\* One plan is executed.
NextDelta ==
  \/ /\ pc = "idle" /\ history = <<>>
     /\ \E operations \in DeltaPlans : ExecStart(operations)
  \/ \E continueExecution \in BOOLEAN : ExecOp(continueExecution)
  \/ ExecFinish

SpecDelta == InitDelta /\ [][NextDelta]_vars

\* ============================================= names resolved against logs
\* Logs of up to MaxLog entries, appended at times 1, 2, ..: the entry
\* appended at time t has id t, and the second may carry the name "z".
MaxLog == 3

EntryAt(t, name) ==
  [id |-> DecimalString(t), name |-> name, timestamp |-> t,
   prompt |-> PlanDescription,
   description |-> executionDescription(1, 1, 0, <<Create("A", NewContent)>>),
   operations |-> <<Response(executionDescription(1, 1, 0,
                                <<Create("A", NewContent)>>)),
                    Create("A", <<DecimalString(t)>>)>>]

RECURSIVE LogOf(_, _)
LogOf(n, name) ==
  IF n = 0 THEN <<>>
  ELSE appendHistory(LogOf(n - 1, name),
                     EntryAt(n, IF n = 2 THEN name ELSE NoName))

\* The references resolved: ~0 .. ~(MaxLog + 1), ~02, ~10, ~, an id and
\* the name.
Tokens ==
  {<<"~">> \o DecimalString(k) : k \in 0..(MaxLog + 1)}
  \cup {<<"~", "0", "2">>, <<"~", "1", "0">>, <<"~">>, <<"2">>, <<"z">>}

InitResolve ==
  /\ fs \in InitialTrees
  /\ history \in {LogOf(n, name) : n \in 0..MaxLog, name \in {NoName, <<"z">>}}
  /\ now = MaxLog + 1
  /\ pc = "idle"
  /\ ex = NoEx
  /\ out = Report("none")
  /\ preFs = fs
  /\ postFs = fs
  /\ trail = <<>>
  /\ rv = NoReview
  /\ inv = NoCalls

\* A call of parseIdOrName on the log as it is: the entry found, or the
\* error thrown.
Resolve(idOrName) ==
  /\ CanCommand
  /\ LET found == parseIdOrName(idOrName, history)
     IN  out' = [Report("resolve") EXCEPT !.ref = idOrName,
                                          !.pos = found.pos,
                                          !.threw = found.error # "",
                                          !.error = found.error]
  /\ trail' = Append(trail, Did("resolve", out'.pos))
  /\ UNCHANGED <<fs, history, now, pc, ex, preFs, postFs, rv, inv>>

NextResolve ==
  \/ \E idOrName \in Tokens : Resolve(idOrName)
  \/ \E idOrName \in Tokens : Undo(idOrName)

SpecResolve == InitResolve /\ [][NextResolve]_vars

\* ====================================================== the history store
\* appendHistory as its two awaited steps, which the steps of another
\* invocation can separate. loadHistory: the invocation reads the stored
\* array (entry is the HistoryEntry it is about to add).
AppendLoad(k, entry) ==
  /\ inv[k].pc = "idle"
  /\ Len(trail) < MaxCmds + 1
  /\ inv' = [inv EXCEPT ![k] = [pc |-> "loaded", history |-> history,
                                entry |-> entry]]
  /\ UNCHANGED <<fs, history, now, pc, ex, out, preFs, postFs, trail, rv>>

\* AppendSave, were the array read again right before it is written.
AppendSave_Isolated(k) ==
  /\ inv[k].pc = "loaded"
  /\ history' = appendHistory(history, inv[k].entry)
  /\ inv' = [inv EXCEPT ![k].pc = "done"]
  /\ trail' = Append(trail, Did("append", k))
  /\ UNCHANGED <<fs, now, pc, ex, out, preFs, postFs, rv>>

\* history.unshift(entry); saveHistory(history): the array that was loaded,
\* with the entry in front, replaces the stored one.
AppendSave(k) ==
  /\ inv[k].pc = "loaded"
  /\ history' = appendHistory(inv[k].history, inv[k].entry)
  /\ inv' = [inv EXCEPT ![k].pc = "done"]
  /\ trail' = Append(trail, Did("append", k))
  /\ UNCHANGED <<fs, now, pc, ex, out, preFs, postFs, rv>>

\* history.filter(h => h !== entry), were the index taken for a position.
Without_ZeroBased(hist, pos) ==
  SubSeq(hist, 1, pos - 2) \o SubSeq(hist, pos, Len(hist))

\* history.filter(h => h !== entry): entry is the object at position pos of
\* the array just parsed, and no other element is that object.
Without(hist, pos) ==
  SubSeq(hist, 1, pos - 1) \o SubSeq(hist, pos + 1, Len(hist))

\* DeleteHistory, were the newest entry removed when nothing is resolved.
DeleteHistory_DroppingNewest(idOrName) ==
  /\ CanCommand
  /\ LET found == parseIdOrName(idOrName, history)
     IN  /\ out' = [Report("delete") EXCEPT
                      !.ref = idOrName,
                      !.pos = found.pos,
                      !.error = IF history = <<>> THEN "empty"
                                ELSE found.error]
         /\ history' = IF history = <<>> THEN history
                       ELSE Without(history, Max(found.pos, 1))
  /\ trail' = Append(trail, Did("delete", out'.pos))
  /\ UNCHANGED <<fs, now, pc, ex, preFs, postFs, rv, inv>>

\* deleteHistory(idOrName).
DeleteHistory(idOrName) ==
  /\ CanCommand
  /\ LET found == parseIdOrName(idOrName, history)
     IN  IF history = <<>>
         THEN /\ out' = [Report("delete") EXCEPT !.ref = idOrName,
                                                 !.error = "empty"]
              /\ history' = history
         ELSE IF found.error # ""
         THEN /\ out' = [Report("delete") EXCEPT !.ref = idOrName,
                                                 !.error = found.error]
              /\ history' = history
         ELSE /\ out' = [Report("delete") EXCEPT !.ref = idOrName,
                                                 !.pos = found.pos]
              /\ history' = Without(history, found.pos)
  /\ trail' = Append(trail, Did("delete", out'.pos))
  /\ UNCHANGED <<fs, now, pc, ex, preFs, postFs, rv, inv>>

\* The entry invocation k appends.
EntryOf(k) == EntryAt(MaxLog + k, NoName)

InitStore ==
  /\ fs = InitialContent
  /\ history \in {LogOf(n, name) : n \in 0..MaxLog, name \in {NoName, <<"z">>}}
  /\ now = MaxLog + 1
  /\ pc = "idle"
  /\ ex = NoEx
  /\ out = Report("none")
  /\ preFs = fs
  /\ postFs = fs
  /\ trail = <<>>
  /\ rv = NoReview
  /\ inv = NoCalls

NextStore ==
  \/ \E k \in Invocations : AppendLoad(k, EntryOf(k))
  \/ \E k \in Invocations : AppendSave(k)
  \/ \E idOrName \in Tokens : DeleteHistory(idOrName)

SpecStore == InitStore /\ [][NextStore]_vars

\* ------------------------------------------------------- plans (edge cases)
\* executePlan on plans that hold operations the type FileOperation[] does
\* not describe but AiOperationSchema accepts: a response operation (the
\* operations of a history entry start with one) and an edit whose endLine
\* is less than its startLine.
EdgeOps ==
  {Response(NewContent),
   Create("A", NewContent),
   EditLines("A", NewContent, 2, 1),
   EditLines("A", NewContent, 1, 2),
   Delete("B")}

EdgePlans == SeqsUpTo(EdgeOps, MaxOps)

NextPlan ==
  \/ /\ pc = "idle"
     /\ \E operations \in EdgePlans : ExecStart(operations)
  \/ \E continueExecution \in BOOLEAN : ExecOp(continueExecution)
  \/ ExecFinish

SpecPlan == Init /\ [][NextPlan]_vars

\* ------------------------------------------------- validation of line bounds
\* A line bound as it arrives in the parsed answer of the model: absent, or
\* a value whose text z.coerce.number() turns into a number with Number().
NotGiven == [given |-> FALSE, text |-> <<>>]
Given(text) == [given |-> TRUE, text |-> text]

AllDigits(text) == \A i \in 1..Len(text) : IsDigit(text[i])

RECURSIVE PowerOfTen(_)
PowerOfTen(n) == IF n = 0 THEN 1 ELSE 10 * PowerOfTen(n - 1)

\* Number(text) for a text of digits, signs, points and letters: the empty
\* string is 0; an optional sign, then digits with an optional point and
\* fraction digits (at least one digit in all) is that decimal number;
\* anything else is NaN. A number is kept as the fraction num / den.
ToNumber(text) ==
  LET signed   == text # <<>> /\ text[1] \in {"-", "+"}
      unsigned == IF signed THEN Tail(text) ELSE text
      points   == {i \in 1..Len(unsigned) : unsigned[i] = "."}
      point    == IF points = {} THEN Len(unsigned) + 1
                  ELSE CHOOSE i \in points : \A j \in points : i <= j
      whole    == SubSeq(unsigned, 1, point - 1)
      fraction == SubSeq(unsigned, point + 1, Len(unsigned))
      digits   == whole \o fraction
      value    == IF digits = <<>> THEN 0 ELSE ParseInt(digits)
  IN  IF text = <<>> THEN [nan |-> FALSE, num |-> 0, den |-> 1]
      ELSE IF digits = <<>> \/ ~AllDigits(digits)
      THEN [nan |-> TRUE, num |-> 0, den |-> 1]
      ELSE [nan |-> FALSE,
            num |-> IF signed /\ text[1] = "-" THEN 0 - value ELSE value,
            den |-> PowerOfTen(Len(fraction))]

\* z.coerce.number().positive().optional(): an absent bound passes; a given
\* one passes when Number() of it is a number (not NaN) greater than 0.
LineBoundSchema(bound) ==
  \/ ~bound.given
  \/ LET n == ToNumber(bound.text) IN ~n.nan /\ n.num > 0

\* EditOperationSchema.parse of an edit with a filePath and a content.
EditOperationSchema(op) ==
  /\ op.filePath # NoPath
  /\ op.content # Undefined
  /\ LineBoundSchema(op.startLine)
  /\ LineBoundSchema(op.endLine)

LineTexts ==
  {<<"1">>, <<"2">>, <<"1", "0">>, <<"0">>, <<"-", "1">>, <<"+", "1">>,
   <<"1", ".", "5">>, <<"2", ".", "0">>, <<".", "5">>, <<"1", ".">>,
   <<"0", ".", "0">>, <<"a">>, <<"1", "a">>, <<>>, <<"-">>, <<".">>}

LineBounds == {NotGiven} \cup {Given(text) : text \in LineTexts}

\* OperationValidator.validateOperation on one edit of file A: the edit is
\* kept as the plan under validation and the verdict is reported.
ValidateEdit(startLine, endLine) ==
  /\ out.cmd = "none"
  /\ LET op == [type |-> "edit", filePath |-> "A", content |-> NewContent,
                startLine |-> startLine, endLine |-> endLine]
     IN  /\ rv' = [NoReview EXCEPT !.currentOperations = <<op>>]
         /\ out' = [Report("validate") EXCEPT
                      !.error = IF EditOperationSchema(op) THEN ""
                                ELSE "invalid"]
  /\ UNCHANGED <<fs, history, now, pc, ex, preFs, postFs, trail, inv>>

InitValidate ==
  /\ fs = InitialContent
  /\ history = <<>>
  /\ now = 1
  /\ pc = "idle"
  /\ ex = NoEx
  /\ out = Report("none")
  /\ preFs = fs
  /\ postFs = fs
  /\ trail = <<>>
  /\ rv = NoReview
  /\ inv = NoCalls

NextValidate ==
  \E startLine, endLine \in LineBounds : ValidateEdit(startLine, endLine)

SpecValidate == InitValidate /\ [][NextValidate]_vars

\* ------------------------------------------------- find-based replacement
\* In this part a file content, a find snippet and a replacement are
\* strings kept as sequences of characters. The replacements of the model
\* hold no "$", so String.prototype.replace inserts them as they are.
\* String.prototype.indexOf(find, from) for a non-empty find, 1-based; 0
\* when there is no occurrence at or after from.
IndexOf(text, find, from) ==
  LET at == {i \in from..(Len(text) - Len(find) + 1) :
               SubSeq(text, i, i + Len(find) - 1) = find}
  IN  IF at = {} THEN 0 ELSE CHOOSE i \in at : \A j \in at : i <= j

\* text.split(find).length - 1 for a non-empty find: the separators are
\* found from left to right, each search starting after the previous one.
RECURSIVE SplitCount(_, _, _)
SplitCount(text, find, from) ==
  LET i == IndexOf(text, find, from)
  IN  IF i = 0 THEN 0 ELSE 1 + SplitCount(text, find, i + Len(find))

\* originalContent.includes('\r\n')
IncludesCRLF(text) ==
  \E i \in 1..(Len(text) - 1) : text[i] = "\r" /\ text[i + 1] = "\n"

LineEnding(originalContent) ==
  IF IncludesCRLF(originalContent) THEN <<"\r", "\n">> ELSE <<"\n">>

\* s.replace(/(?<!\r)\n/g, lineEnding)
AdaptNewlines(s, lineEnding) ==
  LET piece(i) == IF s[i] = "\n" /\ (i = 1 \/ s[i - 1] # "\r")
                  THEN lineEnding ELSE <<s[i]>>
      RECURSIVE upTo(_)
      upTo(i) == IF i = 0 THEN <<>> ELSE upTo(i - 1) \o piece(i)
  IN  upTo(Len(s))

computeFindMatchCount(originalContent, find) ==
  SplitCount(originalContent,
             AdaptNewlines(find, LineEnding(originalContent)), 1)

\* text.replace(find, replacement) with a string find that occurs in text:
\* the first occurrence is replaced.
ReplaceFirst(text, find, replacement) ==
  LET i == IndexOf(text, find, 1)
  IN  SubSeq(text, 1, i - 1) \o replacement
        \o SubSeq(text, i + Len(find), Len(text))

\* replaceInFile(originalContent, content, find): a falsy find (absent or
\* empty) gives content; otherwise the error thrown, or the new content.
replaceInFile(originalContent, content, find) ==
  IF find = <<>> THEN [error |-> "", newContent |-> content]
  ELSE LET lineEnding        == LineEnding(originalContent)
           replacementString == AdaptNewlines(content, lineEnding)
           adaptedFind       == AdaptNewlines(find, lineEnding)
           matchCount        == SplitCount(originalContent, adaptedFind, 1)
       IN  IF matchCount = 0
           THEN [error |-> "notFound", newContent |-> originalContent]
           ELSE IF matchCount > 1
           THEN [error |-> "ambiguous", newContent |-> originalContent]
           ELSE [error |-> "",
                 newContent |-> ReplaceFirst(originalContent, adaptedFind,
                                             replacementString)]

\* validateReplaceInFileReachability: the file must be accessible; a truthy
\* find is counted with a global regular expression of the escaped snippet
\* (content.match(...).length), without any change of line endings.
validateReplaceInFileReachability(tree, filePath, find) ==
  IF filePath = NoPath THEN "noPath"
  ELSE IF ~Exists(tree, filePath) THEN "noAccess"
  ELSE IF find = <<>> THEN ""
  ELSE LET findCount == SplitCount(tree[filePath], find, 1)
       IN  IF findCount = 0 THEN "notFound"
           ELSE IF findCount > 1 THEN "ambiguous"
           ELSE ""

ReplaceOp(filePath, content, find) ==
  [type |-> "replaceInFile", filePath |-> filePath, content |-> content,
   find |-> find]

\* writeFileWithReplace(filePath, content, find): read, replaceInFile,
\* write; an error of the read or of replaceInFile leaves the file alone.
WriteFileWithReplace(filePath, content, find) ==
  /\ trail = <<>>
  /\ rv' = [NoReview EXCEPT
              !.currentOperations = <<ReplaceOp(filePath, content, find)>>]
  /\ IF ~Exists(fs, filePath)
     THEN /\ out' = [Report("replace") EXCEPT !.threw = TRUE,
                                              !.error = "noAccess"]
          /\ fs' = fs
     ELSE LET result == replaceInFile(fs[filePath], content, find)
          IN  /\ out' = [Report("replace") EXCEPT
                           !.threw = result.error # "",
                           !.error = result.error]
              /\ fs' = IF result.error = ""
                       THEN WriteFile(fs, filePath, result.newContent)
                       ELSE fs
  /\ preFs' = fs
  /\ trail' = Append(trail, Did("replace", 0))
  /\ UNCHANGED <<history, now, pc, ex, postFs, inv>>

\* The reachability pass on one replacement, before it is applied.
CheckReachability(filePath, content, find) ==
  /\ trail = <<>>
  /\ rv' = [NoReview EXCEPT
              !.currentOperations = <<ReplaceOp(filePath, content, find)>>]
  /\ out' = [Report("reachability") EXCEPT
               !.error = validateReplaceInFileReachability(fs, filePath, find)]
  /\ trail' = Append(trail, Did("reachability", 0))
  /\ UNCHANGED <<fs, history, now, pc, ex, preFs, postFs, inv>>

ReplaceFiles ==
  {<<"a", "a", "a">>, <<"a", "b", "a", "b">>, <<"a", "b", "a", "b", "a">>,
   <<"a", "\n", "b">>, <<"a", "\r", "\n", "b", "\n", "b">>}

ReplaceFinds ==
  {<<>>, <<"a">>, <<"a", "a">>, <<"a", "b">>, <<"a", "b", "a">>,
   <<"\n", "b">>, <<"c">>}

ReplaceContents == {<<"X">>, <<"x", "\n", "y">>}

InitReplace ==
  /\ fs \in [Paths -> ReplaceFiles \cup {Absent}]
  /\ history = <<>>
  /\ now = 1
  /\ pc = "idle"
  /\ ex = NoEx
  /\ out = Report("none")
  /\ preFs = fs
  /\ postFs = fs
  /\ trail = <<>>
  /\ rv = NoReview
  /\ inv = NoCalls

NextReplace ==
  \/ \E filePath \in Paths, content \in ReplaceContents,
        find \in ReplaceFinds : WriteFileWithReplace(filePath, content, find)
  \/ \E filePath \in Paths, content \in ReplaceContents,
        find \in ReplaceFinds : CheckReachability(filePath, content, find)

SpecReplace == InitReplace /\ [][NextReplace]_vars

\* ------------------------------------------------------------ review loop
\* reviewAndExecutePlan: rv.pc is "menu" while the operator is asked for a
\* choice, "calling" from the moment the apply branch goes on to
\* executePlan until executePlan has returned or thrown, "none" outside
\* the loop.
EditedContent == <<"e">>

\* reviewAndExecutePlan(operations, promptMessage, userPrompt) enters the
\* loop with a copy of the operations; the initial validation only prints.
ReviewStart(operations) ==
  /\ rv.pc = "none"
  /\ pc = "idle"
  /\ history = <<>>
  /\ out.cmd = "none"
  /\ rv' = [NoReview EXCEPT !.pc = "menu", !.currentOperations = operations]
  /\ out' = Report("review")
  /\ preFs' = fs
  /\ UNCHANGED <<fs, history, now, pc, ex, postFs, trail, inv>>

\* ReviewApply, were an invalid plan passed on without the confirmation.
ReviewApply_Unconfirmed(forceApply) ==
  /\ rv.pc = "menu"
  /\ pc = "idle"
  /\ rv' = [rv EXCEPT
              !.choice = "apply",
              !.forceApply = FALSE,
              !.pc = IF rv.currentOperations = <<>> THEN "none" ELSE "calling"]
  /\ out' = Report("apply")
  /\ UNCHANGED <<fs, history, now, pc, ex, preFs, postFs, trail, inv>>

\* The choice 'apply', up to the call of executePlan: an empty plan leaves
\* the loop; a plan the final validation rejects asks the operator whether
\* to force it, and without the confirmation the menu is shown again;
\* otherwise executePlan is called.
ReviewApply(forceApply) ==
  /\ rv.pc = "menu"
  /\ pc = "idle"
  /\ LET isValid == validateOperations(rv.currentOperations)
         asked   == rv.currentOperations # <<>> /\ ~isValid
     IN  /\ rv' = [rv EXCEPT
                     !.choice = "apply",
                     !.forceApply = asked /\ forceApply,
                     !.pc = IF rv.currentOperations = <<>> THEN "none"
                            ELSE IF asked /\ ~forceApply THEN "menu"
                            ELSE "calling"]
         /\ out' = [Report("apply") EXCEPT !.asked = asked,
                                           !.force = asked /\ forceApply]
  /\ UNCHANGED <<fs, history, now, pc, ex, preFs, postFs, trail, inv>>

\* executePlan(currentOperations, ...) is entered from the apply branch.
ReviewExecute ==
  /\ rv.pc = "calling"
  /\ out.cmd = "apply"
  /\ ExecStart(rv.currentOperations)

\* ReviewReturn, were the operations that succeeded taken out of the plan
\* before a retry.
ReviewReturn_KeepingRemaining(retry) ==
  /\ rv.pc = "calling"
  /\ pc = "idle"
  /\ out.cmd = "exec"
  /\ rv' = [rv EXCEPT
              !.pc = IF out.threw /\ retry THEN "menu" ELSE "none",
              !.currentOperations =
                 IF out.threw /\ retry /\ ex.operations = @
                 THEN SubSeq(@, ex.successfulOps + 1, Len(@)) ELSE @]
  /\ UNCHANGED <<fs, history, now, pc, ex, out, preFs, postFs, trail, inv>>

\* executePlan has returned (the loop ends) or thrown: the operator is
\* asked whether to retry, and the loop ends without a retry.
ReviewReturn(retry) ==
  /\ rv.pc = "calling"
  /\ pc = "idle"
  /\ out.cmd = "exec"
  /\ rv' = [rv EXCEPT !.pc = IF out.threw /\ retry THEN "menu" ELSE "none"]
  /\ UNCHANGED <<fs, history, now, pc, ex, out, preFs, postFs, trail, inv>>

\* reviewChangesInDetail on one operation: a create or edit is shown in the
\* diff viewer; when the operator saved an edited content the operation
\* takes it and loses its line range; otherwise an edit of an existing,
\* non-empty file is kept and any other create or edit is dropped.
ReviewedOperation(op, tree, saved) ==
  IF op.type \in {"edit", "create"}
  THEN LET originalContentForDiff ==
             IF op.type = "edit" /\ Exists(tree, op.filePath)
             THEN tree[op.filePath] ELSE <<"">>
       IN  IF saved
           THEN <<[op EXCEPT !.content = EditedContent,
                             !.startLine = NoLine, !.endLine = NoLine]>>
           ELSE IF originalContentForDiff # <<"">> THEN <<op>> ELSE <<>>
  ELSE <<op>>

\* reviewChangesInDetail(operations): a plan that fails validation is
\* returned as it is.
reviewChangesInDetail(operations, tree, saved) ==
  LET RECURSIVE upTo(_)
      upTo(i) == IF i = 0 THEN <<>>
                 ELSE upTo(i - 1) \o ReviewedOperation(operations[i], tree, saved[i])
  IN  IF ~validateOperations(operations) THEN operations
      ELSE upTo(Len(operations))

\* The choice 'review'.
ReviewDetail(saved) ==
  /\ rv.pc = "menu"
  /\ pc = "idle"
  /\ LET reviewed == reviewChangesInDetail(rv.currentOperations, fs, saved)
     IN  rv' = [rv EXCEPT
                  !.choice = "review",
                  !.currentOperations =
                     IF rv.currentOperations = <<>> THEN @ ELSE reviewed,
                  !.pc = IF rv.currentOperations # <<>> /\ reviewed = <<>>
                         THEN "none" ELSE "menu"]
  /\ UNCHANGED <<fs, history, now, pc, ex, out, preFs, postFs, trail, inv>>

\* The choice 'edit': editPlanInEditor gives null for an unchanged plan and
\* for a plan that fails validation unless the operator continues anyway.
ReviewEdit(newPlan, continueAnyway) ==
  /\ rv.pc = "menu"
  /\ pc = "idle"
  /\ LET isNull ==
           \/ newPlan = rv.currentOperations
           \/ ~validateOperations(newPlan) /\ ~continueAnyway
     IN  rv' = [rv EXCEPT
                  !.choice = "edit",
                  !.currentOperations = IF isNull THEN @ ELSE newPlan,
                  !.pc = IF ~isNull /\ newPlan = <<>> THEN "none" ELSE "menu"]
  /\ UNCHANGED <<fs, history, now, pc, ex, out, preFs, postFs, trail, inv>>

\* The choice 'cancel'.
ReviewCancel ==
  /\ rv.pc = "menu"
  /\ pc = "idle"
  /\ rv' = [rv EXCEPT !.choice = "cancel", !.pc = "none"]
  /\ UNCHANGED <<fs, history, now, pc, ex, out, preFs, postFs, trail, inv>>

\* The operations reviewed plans are built from: one that validation
\* rejects (a negative startLine) and three it accepts.
ReviewOps ==
  {Create("A", NewContent),
   EditLines("A", NewContent, 1, 2),
   Delete("B"),
   EditLines("A", NewContent, 0 - 1, 1)}

ReviewPlans == SeqsUpTo(ReviewOps, MaxOps)

NextReview ==
  \/ /\ rv.pc = "none"
     /\ \E operations \in ReviewPlans : ReviewStart(operations)
  \/ \E forceApply \in BOOLEAN : ReviewApply(forceApply)
  \/ ReviewExecute
  \/ \E continueExecution \in BOOLEAN : ExecOp(continueExecution)
  \/ ExecFinish
  \/ \E retry \in BOOLEAN : ReviewReturn(retry)
  \/ \E saved \in [1..MaxOps -> BOOLEAN] : ReviewDetail(saved)
  \/ /\ rv.pc = "menu"
     /\ \E newPlan \in ReviewPlans, continueAnyway \in BOOLEAN :
          ReviewEdit(newPlan, continueAnyway)
  \/ ReviewCancel

SpecReview == Init /\ [][NextReview]_vars

\* ------------------------------------------------------ history commands
\* undoHistory, redoHistory and deleteHistory on a stored log, with
\* references that resolve and references that do not.
CommandRefs ==
  {<<"~">> \o DecimalString(k) : k \in {0, 1, 2, MaxLog + 1}}
  \cup {<<"~">>, <<"2">>, <<"z">>, <<"q">>}

NextCommands ==
  \/ \E idOrName \in CommandRefs : Undo(idOrName)
  \/ \E idOrName \in CommandRefs, force, shouldContinue, useForce \in BOOLEAN :
        Redo(idOrName, force, shouldContinue, useForce)
  \/ \E idOrName \in CommandRefs : DeleteHistory(idOrName)

SpecCommands == InitResolve /\ [][NextCommands]_vars

\* ------------------------------------------------------------ log entries
\* Plans are executed and their entries undone, redone and deleted.
LogPlans ==
  {<<EditFile("A", NewContent)>>,
   <<Delete("B")>>,
   <<Rename("A", "B")>>,
   <<Create("A", NewContent), EditLines("A", NewContent, 1, 2)>>}

NextLog ==
  \/ /\ pc = "idle"
     /\ \E operations \in LogPlans : ExecStart(operations)
  \/ \E continueExecution \in BOOLEAN : ExecOp(continueExecution)
  \/ ExecFinish
  \/ \E idOrName \in References : Undo(idOrName)
  \/ \E idOrName \in References, force, shouldContinue, useForce \in BOOLEAN :
        Redo(idOrName, force, shouldContinue, useForce)
  \/ \E idOrName \in References : DeleteHistory(idOrName)

SpecLog == Init /\ [][NextLog]_vars

\* ---------------------------------------------------------------- entry ids
\* The id of an entry is Date.now().toString() at the moment the entry is
\* built; the millisecond clock may or may not have advanced since the
\* previous entry was built.
Elapse ==
  /\ pc = "idle"
  /\ now < MaxTime
  /\ now' = now + 1
  /\ UNCHANGED <<fs, history, pc, ex, out, preFs, postFs, trail, rv, inv>>

\* saveExecutionHistory(executedOperations, planDescription,
\* executionDescription, fileOriginalContents): the entry is built and
\* appended.
SaveExecutionHistory(executedOperations) ==
  /\ pc = "idle"
  /\ Len(history) < MaxLog
  /\ LET description ==
           executionDescription(Len(executedOperations),
                                Len(executedOperations), 0, executedOperations)
         historyEntry ==
           [id |-> DecimalString(now), name |-> NoName, timestamp |-> now,
            prompt |-> PlanDescription, description |-> description,
            operations |-> executedOperations]
     IN  history' = appendHistory(history, historyEntry)
  /\ out' = Report("save")
  /\ UNCHANGED <<fs, now, pc, ex, preFs, postFs, trail, rv, inv>>

SavedPlans == {<<>>, <<Create("A", NewContent)>>, <<Delete("B")>>}

NextIds ==
  \/ Elapse
  \/ \E executedOperations \in SavedPlans :
        SaveExecutionHistory(executedOperations)

SpecIds == Init /\ [][NextIds]_vars

\* ---------------------------------------------------------- protocol parser
\* A text is a sequence of lines and a line, once trimmed, the sequence of
\* its words. The markers are those of startDelimiter and endDelimiter; the
\* parser itself follows the grammar and the parsing policy of the
\* specification: blocks between "--- OPERATION START ---" and
\* "--- OPERATION END ---", holding "key: value" lines and multi-line
\* fields between "--- name START ---" and "--- name END ---".
MaxText == 5

startDelimiter(identifier) == <<"---", identifier, "START", "---">>
endDelimiter(identifier) == <<"---", identifier, "END", "---">>

\* startDelimiterRegex / endDelimiterRegex match the whole line.
startDelimiterRegex(line) ==
  Len(line) = 4 /\ line[1] = "---" /\ line[3] = "START" /\ line[4] = "---"
endDelimiterRegex(line) ==
  Len(line) = 4 /\ line[1] = "---" /\ line[3] = "END" /\ line[4] = "---"

\* A single-line field: the first colon splits key and value.
IsFieldLine(line) == Len(line) >= 2 /\ line[1] # "---" /\ line[2] = ":"
FieldOf(line) == [key |-> line[1], value |-> <<SubSeq(line, 3, Len(line))>>]

NoRecord == [fields |-> <<>>, malformed |-> FALSE]
NoField == [name |-> "", content |-> <<>>]

\* AtEnd, were a block left open at the end of the input to void the
\* whole result.
AtEnd_DroppingAll(mode, records, errors) ==
  IF mode = "top" THEN [records |-> records, errors |-> errors, threw |-> FALSE]
  ELSE [records |-> <<>>, errors |-> errors + 1, threw |-> FALSE]

\* End of input: a block still open is dropped and reported; the records
\* of the blocks closed before are returned.
AtEnd(mode, records, errors) ==
  IF mode = "top" THEN [records |-> records, errors |-> errors, threw |-> FALSE]
  ELSE [records |-> records, errors |-> errors + 1, threw |-> FALSE]

\* The parser on lines i.. of the text. At the top level only an opening
\* block marker matters. In a block, the closing block marker ends it (a
\* block with a malformed line is dropped and reported), a field marker
\* opens a multi-line field, a key: value line adds a field, any other
\* line is malformed. In a multi-line field the matching closing marker
\* ends the field, the closing block marker closes the block over the
\* unclosed field (the block is dropped and reported) and any other line
\* is content, verbatim.
RECURSIVE ParseFrom(_, _, _, _, _, _, _)
ParseFrom(lines, i, mode, record, field, records, errors) ==
  IF i > Len(lines) THEN AtEnd(mode, records, errors)
  ELSE
    LET line == lines[i]
    IN  CASE mode = "top" ->
               IF line = startDelimiter("OPERATION")
               THEN ParseFrom(lines, i + 1, "block", NoRecord, NoField,
                              records, errors)
               ELSE ParseFrom(lines, i + 1, "top", record, field,
                              records, errors)
          [] mode = "block" ->
               IF line = endDelimiter("OPERATION")
               THEN IF record.malformed
                    THEN ParseFrom(lines, i + 1, "top", NoRecord, NoField,
                                   records, errors + 1)
                    ELSE ParseFrom(lines, i + 1, "top", NoRecord, NoField,
                                   Append(records, record.fields), errors)
               ELSE IF startDelimiterRegex(line)
                       /\ line # startDelimiter("OPERATION")
               THEN ParseFrom(lines, i + 1, "field", record,
                              [name |-> line[2], content |-> <<>>],
                              records, errors)
               ELSE IF IsFieldLine(line)
               THEN ParseFrom(lines, i + 1, "block",
                              [record EXCEPT !.fields = Append(@, FieldOf(line))],
                              field, records, errors)
               ELSE ParseFrom(lines, i + 1, "block",
                              [record EXCEPT !.malformed = TRUE],
                              field, records, errors)
          [] OTHER ->
               IF line = endDelimiter(field.name)
               THEN ParseFrom(lines, i + 1, "block",
                              [record EXCEPT !.fields =
                                 Append(@, [key |-> field.name,
                                            value |-> field.content])],
                              NoField, records, errors)
               ELSE IF line = endDelimiter("OPERATION")
               THEN ParseFrom(lines, i + 1, "top", NoRecord, NoField,
                              records, errors + 1)
               ELSE ParseFrom(lines, i + 1, "field", record,
                              [field EXCEPT !.content = Append(@, line)],
                              records, errors)

\* parse(rawText)
parse(rawText) == ParseFrom(rawText, 1, "top", NoRecord, NoField, <<>>, 0)

ParseLines ==
  {startDelimiter("OPERATION"), endDelimiter("OPERATION"),
   startDelimiter("content"), endDelimiter("content"),
   <<"filePath", ":", "A">>, <<"type", ":", "create">>, <<"hello">>}

\* One call of parse: the text is kept in ex.operations, the records in
\* rv.currentOperations and the number of diagnostics in out.pos.
ParseText(rawText) ==
  /\ out.cmd = "none"
  /\ LET result == parse(rawText)
     IN  /\ ex' = [NoEx EXCEPT !.operations = rawText]
         /\ rv' = [NoReview EXCEPT !.currentOperations = result.records]
         /\ out' = [Report("parse") EXCEPT !.pos = result.errors,
                                           !.threw = result.threw]
  /\ UNCHANGED <<fs, history, now, pc, preFs, postFs, trail, inv>>

NextParse == \E rawText \in SeqsUpTo(ParseLines, MaxText) : ParseText(rawText)

SpecParse == InitValidate /\ [][NextParse]_vars

\* ================================================================= claims
\* The paths an operation list names.
TouchedPaths(operations) ==
  {operations[k].filePath : k \in 1..Len(operations)}
  \cup {operations[k].oldPath : k \in {j \in 1..Len(operations) :
                                        operations[j].type = "rename"}}

Executed == Did("exec", 1)
Undone   == Did("undo", 1)
Redone   == Did("redo", 1)
Changed  == Did("ext", 0)

\* The last executePlan call has returned.
HasExecuted == Len(trail) >= 1 /\ trail[1] = Executed

\* C1: executing a structurally valid plan without failure and undoing the
\* appended entry at once leaves every path the plan touched with its
\* pre-plan content (missing if it was missing).
C1_UndoRestoresPrePlanTree ==
  (trail = <<Executed, Undone>> /\ ex.failedOps = 0)
    => \A p \in TouchedPaths(ex.operations) : fs[p] = preFs[p]

\* C3: when an operation fails, no later operation of the plan is attempted:
\* only the last recorded result can be a failure.
C3_NoOperationAfterFailure ==
  \A k \in 1..(Len(ex.executionResults) - 1) : ex.executionResults[k].success

\* The step in which executePlan ends.
ExecReturns == pc = "exec" /\ pc' = "idle"

\* C4: the end of every executePlan call on a valid plan prepends exactly one
\* entry to the log, whose file operations include every attempted
\* operation (failed ones too) as executed; no other step of executePlan,
\* and no undo or redo, changes the log.
C4_OneEntryPerExecution ==
  [][ /\ ExecReturns =>
           /\ Len(history') = Len(history) + 1
           /\ Tail(history') = history
           /\ LET recorded == FileOperations(history'[1].operations)
              IN  /\ Len(ex.executionResults) >= 1
                  /\ \A k \in 1..Len(ex.executionResults) :
                       /\ ex.executionResults[k].index <= Len(recorded)
                       /\ recorded[ex.executionResults[k].index]
                            = ex.executedOperations[ex.executionResults[k].index]
      /\ ~ExecReturns => history' = history ]_vars

C4_FailedPlanRecorded ==
  /\ trail = <<Executed>>
  /\ Len(history) = 1
  /\ ex.failedOps >= 1
  /\ ex.successfulOps >= 1

\* A step of executePlan in which an operation fails.
ExecFails == pc = "exec" /\ pc' = "exec" /\ ex'.failedOps = ex.failedOps + 1

\* C5: there is no rollback. A failing operation and the end of executePlan
\* leave the working tree as the operations before left it; for the plan
\* [Create(A), Delete(B)] with B missing, A holds the given content when
\* executePlan has ended, and the call reports the failure.
C5_NoRollback ==
  /\ [][ (ExecFails \/ ExecReturns) => fs' = fs ]_vars
  /\ []( ( /\ trail = <<Executed>>
           /\ ex.operations = <<Create("A", NewContent), Delete("B")>>
           /\ preFs["B"] = Absent )
         => /\ fs["A"] = NewContent
            /\ ex.successfulOps = 1
            /\ ex.failedOps = 1
            /\ out.threw )

C5_CreateKeptAfterFailedDelete ==
  /\ trail = <<Executed>>
  /\ ex.operations = <<Create("A", NewContent), Delete("B")>>
  /\ preFs = [p \in Paths |-> Absent]
  /\ fs["A"] = NewContent
  /\ ex.failedOps = 1

\* C6: every file system failure of an operation is recorded as a failure
\* of that operation, and executePlan throws exactly when some operation's
\* file system action failed.
C6_EveryFailureReported ==
  /\ ex.failedOps = ex.raisedOps
  /\ (trail = <<Executed>> => (out.threw <=> ex.raisedOps > 0))

\* The file a list of ranged edits of one file yields when all of them are
\* applied to the lines of the original at once: the lines before the
\* first range, then for each edit its content followed by the original
\* lines between the end of its range and the start of the next.
OriginalLines(lines, first, last) ==
  SubSeq(lines, first, Min(last, Len(lines)))
RECURSIVE AfterRange(_, _, _)
AfterRange(lines, edits, from) ==
  IF edits = <<>> THEN OriginalLines(lines, from, Len(lines))
  ELSE OriginalLines(lines, from, edits[1].startLine - 1)
       \o edits[1].content
       \o AfterRange(lines, Tail(edits), edits[1].endLine)
Simultaneous(original, edits) == AfterRange(original, edits, 1)

\* The lines of a text, line terminators (LF or CRLF) left out.
Lines(content) == SplitLinesRegex(content)

\* C2: when executePlan has run a plan of ranged edits, given per file top
\* to bottom and non-overlapping with bounds [startLine, endLine) against
\* the original file, every file holds the lines that applying its edits
\* to the original content at once yields.
C2_SequentialEqualsSimultaneous ==
  trail = <<Executed>> =>
    \A p \in Paths :
      Lines(fs[p]) = Lines(Simultaneous(preFs[p], EditsOf(ex.operations, p)))

\* A later edit lands on the shifted range, not on the literal line 3 of
\* the file the first edit left.
C2_LaterEditShifted ==
  /\ trail = <<Executed>>
  /\ preFs["A"] = <<"a", "b", "c">>
  /\ ex.operations = <<EditLines("A", <<"X">>, 1, 3),
                       EditLines("A", <<"p\r", "Y">>, 3, 4)>>
  /\ fs["A"] = <<"X", "p", "Y">>
  /\ ex.failedOps = 0

\* A step of redoHistory that resolved an entry.
RedoRuns ==
  /\ Len(trail') = Len(trail) + 1
  /\ trail'[Len(trail')].cmd = "redo"
  /\ out'.error = ""

ChangeDetected(operations, tree) ==
  \E k \in 1..Len(operations) :
    LET op == operations[k]
    IN  \/ /\ op.type \in {"create", "edit"}
           /\ tree[op.filePath] # Absent
           /\ tree[op.filePath] # op.content
        \/ op.type = "delete" /\ tree[op.filePath] # Absent
        \/ /\ op.type = "rename"
           /\ (tree[op.filePath] # Absent \/ tree[op.oldPath] = Absent)

\* Operation k is the last of the list to name its path.
LastOnPath(operations, k) ==
  \A j \in (k + 1)..Len(operations) :
    operations[k].filePath \notin TouchedPaths(<<operations[j]>>)

C8_RedoReproducesExecution ==
  ( /\ trail = <<Executed, Undone, Redone>>
    /\ ex.failedOps = 0
    /\ ~(out.asked /\ ~out.shouldContinue) )
    => \A p \in TouchedPaths(ex.operations) : fs[p] = postFs[p]

\* A step of undoHistory that resolved an entry.
UndoRuns ==
  /\ Len(trail') = Len(trail) + 1
  /\ trail'[Len(trail')].cmd = "undo"
  /\ out'.error = ""

\* C9: for the plan [Rename(p, q)] with p existing and q missing, execute
\* then undo leaves the unchanged content at p and nothing at q; the recorded
\* operation carries the source path and no content backup, and the undo
\* moves whatever is at q back to p.
C9_RenameUndoneByPathOnly ==
  /\ []( \A p, q \in Paths :
           ( /\ p # q
             /\ trail = <<Executed, Undone>>
             /\ ex.operations = <<Rename(p, q)>>
             /\ preFs[p] # Absent /\ preFs[q] = Absent )
           => /\ fs[p] = preFs[p]
              /\ fs[q] = Absent
              /\ FileOperations(history[1].operations)
                   = <<[Rename(p, q) EXCEPT !.originalPath = p]>> )
  /\ [][ \A p, q \in Paths :
           ( /\ p # q
             /\ UndoRuns
             /\ FileOperations(history[out'.pos].operations)
                  = <<[Rename(p, q) EXCEPT !.originalPath = p]>>
             /\ fs[q] # Absent )
           => fs'[p] = fs[q] /\ fs'[q] = Absent ]_vars

C9_RenameUndone ==
  /\ trail = <<Executed, Undone>>
  /\ ex.operations = <<Rename("A", "B")>>
  /\ preFs = [p \in Paths |-> IF p = "A" THEN InitialContent["A"] ELSE Absent]
  /\ postFs = [p \in Paths |-> IF p = "B" THEN InitialContent["A"] ELSE Absent]
  /\ fs = preFs

\* The number a recency token ~k denotes.
IsRecencyToken(ref) == IsIndexFormat(ref)
TokenNumber(ref) == ParseInt(Tail(ref))

\* The log holds its entries newest first, appended at times 1, 2, ...
NewestFirst ==
  \A k \in 1..Len(history) : history[k].timestamp = Len(history) + 1 - k

\* C10: on a log of n entries, resolving the recency token k with
\* 1 <= k <= n finds the k-th most recently appended entry, and resolving
\* one with k = 0 or k > n fails with the out-of-range error and finds no
\* entry (undoHistory resolves its reference like this on every non-empty
\* log).
C10_RecencyTokenResolved ==
  ( /\ Len(trail) >= 1
    /\ IsRecencyToken(out.ref)
    /\ out.cmd = "resolve" \/ (out.cmd = "undo" /\ history # <<>>) )
  => LET k == TokenNumber(out.ref)
         n == Len(history)
     IN  /\ trail[Len(trail)].pos = out.pos
         /\ IF 1 <= k /\ k <= n
            THEN /\ out.error = ""
                 /\ out.pos \in 1..n
                 /\ history[out.pos].timestamp = n + 1 - k
                 /\ history[out.pos].id = DecimalString(n + 1 - k)
            ELSE /\ out.error = "range"
                 /\ out.pos = 0
                 /\ out.cmd = "resolve" => out.threw

C10_NewestOfThree ==
  /\ Len(history) = 3
  /\ NewestFirst
  /\ out.cmd = "resolve"
  /\ out.ref = <<"~", "1">>
  /\ out.pos = 1
  /\ history[out.pos].timestamp = 3

\* The step in which invocation k writes the log.
Saves(k) == inv[k].pc = "loaded" /\ inv'[k].pc = "done"

\* C11: when appendHistory(e) runs on the stored log L (no other invocation
\* writes between its load and its save), the stored log afterwards is e
\* followed by the entries of L in unchanged order.
C11_AppendPrependsToLog ==
  [][ \A k \in Invocations :
        (Saves(k) /\ inv[k].history = history)
        => /\ Len(history') = Len(history) + 1
           /\ history'[1] = inv[k].entry
           /\ \A i \in 1..Len(history) : history'[i + 1] = history[i] ]_vars

C11_AppendedToLogOfTwo ==
  /\ trail = <<Did("append", 1)>>
  /\ Len(history) = 3
  /\ history[1] = EntryOf(1)
  /\ history[2].timestamp = 2 /\ history[3].timestamp = 1

\* A step of undoHistory, whether or not it resolved an entry.
UndoReturns ==
  /\ Len(trail') = Len(trail) + 1
  /\ trail'[Len(trail')].cmd = "undo"

\* C12: undoHistory leaves the log as it is: the undone entry stays at its
\* position with its content, and the reference still resolves to it.
C12_UndoKeepsLog ==
  [][ UndoReturns =>
        /\ history' = history
        /\ out'.error = "" =>
             /\ history'[out'.pos] = history[out'.pos]
             /\ parseIdOrName(out'.ref, history').error = ""
             /\ parseIdOrName(out'.ref, history').pos = out'.pos ]_vars

\* The second of three entries is undone and its reference resolves again.
C12_ResolvedAfterUndo ==
  /\ trail = <<Did("undo", 2), Did("resolve", 2)>>
  /\ Len(history) = 3
  /\ out.ref = <<"~", "2">>
  /\ history[2].timestamp = 2
  /\ preFs["A"] # Absent /\ fs["A"] = Absent

DeleteReturns ==
  Len(trail') = Len(trail) + 1 /\ trail'[Len(trail')].cmd = "delete"

\* C13: a deleteHistory call that resolves its reference removes exactly the
\* entry at the resolved position from the stored log and keeps every other
\* entry, unchanged and in the same order; a call that does not resolve it
\* leaves the log as it was; in both cases no file of the working tree
\* changes.
C13_DeleteRemovesOnlyResolvedEntry ==
  [][ DeleteReturns =>
        /\ fs' = fs
        /\ IF out'.error = ""
           THEN /\ out'.pos \in 1..Len(history)
                /\ Len(history') = Len(history) - 1
                /\ \A i \in 1..(out'.pos - 1) : history'[i] = history[i]
                /\ \A i \in (out'.pos + 1)..Len(history) :
                        history'[i - 1] = history[i]
           ELSE history' = history ]_vars

C13_MiddleOfThreeDeleted ==
  /\ trail = <<Did("delete", 2)>>
  /\ out.ref = <<"~", "2">>
  /\ Len(history) = 2
  /\ history[1].timestamp = 3
  /\ history[2].timestamp = 1
  /\ fs = InitialContent

\* C16: each appendHistory call saves its entry in front of the log it
\* loaded, whatever has been saved since: when two calls load the same log
\* and then both save, the stored log after the second save holds the second
\* call's entry and not the first's.
C16_LastWriterWins ==
  [][ \A k \in Invocations :
        Saves(k) =>
          /\ history' = <<inv[k].entry>> \o inv[k].history
          /\ \A j \in Invocations \ {k} :
                (inv[j].pc = "done" /\ inv[j].history = inv[k].history)
                  => \A i \in 1..Len(history') : history'[i] # inv[j].entry
    ]_vars

C16_FirstAppendLost ==
  /\ trail = <<Did("append", 1), Did("append", 2)>>
  /\ inv[1].pc = "done" /\ inv[2].pc = "done"
  /\ inv[1].history = inv[2].history
  /\ Len(inv[2].history) = 2
  /\ history = <<EntryOf(2)>> \o inv[2].history
  /\ \A i \in 1..Len(history) : history[i] # EntryOf(1)

\* The loop of executePlan runs the operation at ex.i.
RunsOp ==
  /\ pc = "exec"
  /\ ~ex.stopped
  /\ ex.i <= Len(ex.executedOperations)
  /\ ex'.i = ex.i + 1

\* C14: when executePlan runs a create operation whose target path exists,
\* the operation is recorded as failed and the working tree is left as it
\* was, so the existing file keeps its content.
C14_CreateFailsOnExistingPath ==
  [][ (/\ RunsOp
       /\ ex.executedOperations[ex.i].type = "create"
       /\ Exists(fs, ex.executedOperations[ex.i].filePath))
        => /\ ~ex'.executionResults[ex.i].success
           /\ fs' = fs ]_vars

\* C15: when executePlan runs a response operation, the operation is
\* recorded as a success, no failure is counted and the working tree is left
\* as it was.
C15_ResponseIsSuccessfulNoOp ==
  [][ (RunsOp /\ ex.executedOperations[ex.i].type = "response")
        => /\ ex'.executionResults[ex.i].success
           /\ ex'.failedOps = ex.failedOps
           /\ fs' = fs ]_vars

\* C18: no plan that executePlan has validated and started to run holds an
\* edit with both line bounds given and endLine less than startLine.
C18_NoReversedRangeExecuted ==
  pc = "exec" =>
    \A i \in 1..Len(ex.operations) :
      LET op == ex.operations[i]
      IN  ~(/\ op.type = "edit"
            /\ op.startLine # NoLine
            /\ op.endLine # NoLine
            /\ op.endLine < op.startLine)

PositiveInteger(bound) ==
  LET n == ToNumber(bound.text)
  IN  ~n.nan /\ n.num > 0 /\ n.num % n.den = 0

\* C19: an edit that validation accepts has, for each line bound it gives, a
\* value that is a positive integer once coerced to a number.
C19_OnlyPositiveIntegersAccepted ==
  (out.cmd = "validate" /\ out.error = "") =>
    LET op == rv.currentOperations[1]
    IN  /\ op.startLine.given => PositiveInteger(op.startLine)
        /\ op.endLine.given => PositiveInteger(op.endLine)

\* Every position at which find occurs in text, overlapping ones included.
Occurrences(text, find) ==
  {i \in 1..(Len(text) - Len(find) + 1) :
     SubSeq(text, i, i + Len(find) - 1) = find}

ReplaceReturns ==
  /\ Len(trail') = Len(trail) + 1
  /\ trail'[Len(trail')].cmd = "replace"
  /\ Exists(fs, rv'.currentOperations[1].filePath)
  /\ rv'.currentOperations[1].find # <<>>

\* C20: a replacement with a find snippet on an existing file, the snippet
\* taken with the line endings of the file: when the snippet occurs at no
\* position the call fails with the not-found error, when it occurs at more
\* than one position (overlapping or not) it fails with the ambiguous-match
\* error, in both cases the file system is left as it was, and the
\* replacement is applied only when the snippet occurs at exactly one
\* position.
C20_ReplacedOnlyOnSingleOccurrence ==
  [][ ReplaceReturns =>
        LET op    == rv'.currentOperations[1]
            text  == fs[op.filePath]
            count == Cardinality(Occurrences(text,
                        AdaptNewlines(op.find, LineEnding(text))))
        IN  /\ count = 0 => (out'.error = "notFound" /\ fs' = fs)
            /\ count > 1 => (out'.error = "ambiguous" /\ fs' = fs)
            /\ out'.error = "" => count = 1 ]_vars

\* C17: while the plan under review fails validation, no step changes the
\* working tree, and the apply branch goes on to executePlan only when the
\* operator has confirmed the forced application.
C17_InvalidPlanNeedsForceApply ==
  [][ (rv.pc # "none" /\ ~validateOperations(rv.currentOperations))
        => /\ fs' = fs
           /\ (rv.pc = "menu" /\ rv'.pc = "calling") => rv'.forceApply ]_vars

C17_ForcedInvalidPlanNotApplied ==
  /\ rv.pc = "calling"
  /\ rv.choice = "apply"
  /\ rv.forceApply
  /\ rv.currentOperations = <<EditLines("A", NewContent, 0 - 1, 1)>>
  /\ out.cmd = "exec"
  /\ out.threw
  /\ fs["A"] = InitialContent["A"]
  /\ fs = preFs

\* C21: the review loop leaves the menu for good, with a plan that held
\* operations and without calling executePlan, only on the choice 'cancel'.
C21_OnlyCancelAbandonsPlan ==
  [][ (/\ rv.pc = "menu"
       /\ rv.currentOperations # <<>>
       /\ rv'.pc = "none")
        => rv'.choice = "cancel" ]_vars

\* No entry of the log has the reference as its id or name, or the
\* reference is a recency token whose number is not in 1..Len(log).
Unresolvable(ref, hist) ==
  IF IsRecencyToken(ref)
  THEN TokenNumber(ref) \notin 1..Len(hist)
  ELSE \A k \in 1..Len(hist) : hist[k].id # ref /\ hist[k].name # ref

CommandReturns ==
  /\ Len(trail') = Len(trail) + 1
  /\ trail'[Len(trail')].cmd \in {"undo", "redo", "delete"}

\* C22: an undoHistory, redoHistory or deleteHistory call whose reference
\* resolves to no entry of the log reports an error and leaves the working
\* tree and the log as they were.
C22_UnresolvedReferenceChangesNothing ==
  [][ (CommandReturns /\ Unresolvable(out'.ref, history))
        => /\ out'.error # ""
           /\ fs' = fs
           /\ history' = history ]_vars

C22_DeleteOutOfRangeKeptLog ==
  /\ Len(trail) = 3
  /\ trail[3] = Did("delete", 0)
  /\ trail[2] = Did("redo", 0)
  /\ trail[1] = Did("undo", 0)
  /\ out.ref = <<"~">> \o DecimalString(MaxLog + 1)
  /\ out.error = "range"
  /\ Len(history) = MaxLog
  /\ fs = preFs

C24_IdsStrictlyIncreasing ==
  \A i, j \in 1..Len(history) :
    i < j => ParseInt(history[i].id) > ParseInt(history[j].id)

\* C25: a redoHistory call made right after an execution in which every
\* operation of the plan succeeded, with the working tree still as the
\* execution left it, finds no change and asks the operator nothing.
C25_NoDivergenceOnProducedState ==
  [][ (/\ RedoRuns
       /\ trail = <<Did("exec", 1)>>
       /\ out.cmd = "exec"
       /\ ~out.threw
       /\ fs = postFs
       /\ out'.error = "")
        => /\ ~out'.hasChanges
           /\ ~out'.asked ]_vars

\* Line a of the text lies inside a block: an opening block marker comes
\* before it with no closing block marker in between.
InsideBlock(lines, a) ==
  \E k \in 1..(a - 1) :
    /\ lines[k] = startDelimiter("OPERATION")
    /\ \A m \in (k + 1)..(a - 1) : lines[m] # endDelimiter("OPERATION")

\* The lines at which a block opens, and those of blocks never closed.
BlockStarts(lines) ==
  {a \in 1..Len(lines) :
     lines[a] = startDelimiter("OPERATION") /\ ~InsideBlock(lines, a)}
Unterminated(lines) ==
  {a \in BlockStarts(lines) :
     \A m \in (a + 1)..Len(lines) : lines[m] # endDelimiter("OPERATION")}

\* The closed blocks whose body is made of key: value lines only, as pairs
\* of their first and last line.
PlainBlocks(lines) ==
  {ab \in BlockStarts(lines) \X (1..Len(lines)) :
     /\ ab[1] < ab[2]
     /\ lines[ab[2]] = endDelimiter("OPERATION")
     /\ \A m \in (ab[1] + 1)..(ab[2] - 1) : IsFieldLine(lines[m])}

\* C26: parse does not throw. Cutting the text at any line that is outside
\* every block, the records of the whole are the records of the first part
\* followed by those of the second, so records come in the order of their
\* blocks and an error stays within its block. A closed block made of
\* key: value lines gives the record of exactly these fields. A block that
\* is still open at the end of the input is reported and dropped, and the
\* records returned are those of the text before it.
C26_ParseRecoversBlocksInOrder ==
  out.cmd = "parse" =>
    LET lines   == ex.operations
        records == rv.currentOperations
    IN  /\ ~out.threw
        /\ \A k \in 1..(Len(lines) + 1) :
              ~InsideBlock(lines, k) =>
                records = parse(SubSeq(lines, 1, k - 1)).records
                            \o parse(SubSeq(lines, k, Len(lines))).records
        /\ \A ab \in PlainBlocks(lines) :
              parse(SubSeq(lines, ab[1], ab[2])).records =
                <<[m \in 1..(ab[2] - ab[1] - 1) |-> FieldOf(lines[ab[1] + m])]>>
        /\ \A a \in Unterminated(lines) :
              /\ out.pos >= 1
              /\ records = parse(SubSeq(lines, 1, a - 1)).records

C26_BlockKeptBeforeUnterminatedBlock ==
  /\ out.cmd = "parse"
  /\ ex.operations = <<startDelimiter("OPERATION"), <<"filePath", ":", "A">>,
                       endDelimiter("OPERATION"),
                       startDelimiter("OPERATION"), <<"type", ":", "create">>>>
  /\ rv.currentOperations = <<<<[key |-> "filePath", value |-> <<<<"A">>>>]>>>>
  /\ out.pos = 1
  /\ ~out.threw

\* The tree after the inversions of operations j, j - 1, ..., 1 of the
\* entry, one after the other (a response operation has no inversion).
RECURSIVE InvertedDownFrom(_, _, _)
InvertedDownFrom(operations, j, tree) ==
  IF j = 0 THEN tree
  ELSE InvertedDownFrom(operations, j - 1,
                        IF operations[j].type = "response" THEN tree
                        ELSE UndoOperation(operations[j], tree))

\* C27: an undoHistory call that resolved an entry leaves the tree that
\* results from inverting the operations of the entry from the last to the
\* first, each inversion acting on the tree the later operations' inversions
\* left.
C27_UndoInvertsLastToFirst ==
  [][ UndoRuns =>
        LET operations == history[out'.pos].operations
        IN  fs' = InvertedDownFrom(operations, Len(operations), fs) ]_vars

C27_RenameUndoneBeforeCreate ==
  /\ trail = <<Did("exec", 1), Did("undo", 1)>>
  /\ ex.operations = <<Create("A", NewContent), Rename("A", "B")>>
  /\ ex.failedOps = 0
  /\ postFs["B"] = NewContent
  /\ fs["A"] = Absent
  /\ fs["B"] = Absent

\* The inversion of op can be performed on the tree: a created file is
\* there to remove, an edit or a delete carries its backup, a rename
\* carries its source path and its target is there to move back.
CanInvert(op, tree) ==
  CASE op.type = "create" -> Exists(tree, op.filePath)
    [] op.type \in {"edit", "delete"} -> op.originalContent # Undefined
    [] op.type = "rename" -> op.originalPath # NoPath /\ Exists(tree, op.filePath)
    [] OTHER -> FALSE

Inverted(op, tree) ==
  CASE op.type = "create" -> [tree EXCEPT ![op.filePath] = Absent]
    [] op.type \in {"edit", "delete"} ->
         [tree EXCEPT ![op.filePath] = op.originalContent]
    [] OTHER ->
         [p \in Paths |-> IF p = op.originalPath THEN tree[op.filePath]
                          ELSE IF p = op.filePath THEN Absent
                          ELSE tree[p]]

\* Operations j, j - 1, ..., 1 are taken in turn; one whose inversion
\* cannot be performed is passed over and the next is taken.
RECURSIVE SkippingDownFrom(_, _, _)
SkippingDownFrom(operations, j, tree) ==
  IF j = 0 THEN tree
  ELSE SkippingDownFrom(operations, j - 1,
                        IF CanInvert(operations[j], tree)
                        THEN Inverted(operations[j], tree) ELSE tree)

\* C28: an undoHistory call that resolved an entry performs every inversion
\* that can be performed when its turn comes, whatever the number of
\* inversions before it that could not be: the tree it leaves is that of
\* the performable inversions alone, taken from the last operation to the
\* first.
C28_UndoSkipsAndContinues ==
  [][ UndoRuns =>
        LET operations == history[out'.pos].operations
        IN  fs' = SkippingDownFrom(operations, Len(operations), fs) ]_vars

C28_DeleteRestoredAfterSkippedEdit ==
  /\ trail = <<Did("exec", 1), Did("undo", 1)>>
  /\ ex.operations = <<Delete("B"), EditFile("A", NewContent)>>
  /\ ex.failedOps = 0
  /\ preFs["A"] = Absent
  /\ history[1].operations[3].originalContent = Undefined
  /\ fs["A"] = NewContent
  /\ postFs["B"] = Absent
  /\ fs["B"] = InitialContent["B"]

\* The paths a plan names as the target of an edit or a delete or as the
\* source of a rename.
BackedUpPaths(operations) ==
  {p \in Paths :
     \E k \in 1..Len(operations) :
       \/ operations[k].type \in {"edit", "delete"} /\ operations[k].filePath = p
       \/ operations[k].type = "rename" /\ operations[k].oldPath = p}

\* C29: once executePlan has stored its entry, every path the plan names in
\* an edit, a delete or as a rename source, and that existed when the plan
\* started, has its content of that moment in the entry, as the
\* originalContent of an operation on that path.
C29_EntryCarriesPrePlanContents ==
  (pc = "idle" /\ trail = <<Did("exec", 1)>> /\ history # <<>>) =>
    \A p \in BackedUpPaths(ex.operations) :
      preFs[p] # Absent =>
        \E k \in 1..Len(history[1].operations) :
          LET op == history[1].operations[k]
          IN  /\ op.filePath = p \/ op.oldPath = p
              /\ op.originalContent = preFs[p]

\* ------------------------------------- whole-file edits among ranged edits
\* The operations of the plans: ranged edits of A that grow and shrink the
\* file, a ranged edit of B, and whole-file edits of both.
WholeContent == <<"u", "v", "w">>
ResetOps ==
  {EditLines("A", <<"X", "Y">>, 1, 2), EditLines("A", <<"Z">>, 1, 3),
   EditLines("B", <<"X", "Y">>, 1, 2),
   EditFile("A", WholeContent), EditFile("B", WholeContent)}
ResetPlans == SeqsUpTo(ResetOps, MaxEdits + 1) \ {<<>>}

\* One plan of these is executed.
NextReset ==
  \/ /\ pc = "idle" /\ history = <<>>
     /\ \E operations \in ResetPlans : ExecStart(operations)
  \/ \E continueExecution \in BOOLEAN : ExecOp(continueExecution)
  \/ ExecFinish

SpecReset == InitDelta /\ [][NextReset]_vars

isPartialEdit(op) ==
  op.type = "edit" /\ op.startLine # NoLine /\ op.endLine # NoLine
IsWholeFileEdit(op) == op.type = "edit" /\ ~isPartialEdit(op)

\* Operation i of the plan comes after a whole-file edit of its path with
\* no ranged edit of that path in between.
FirstSinceWholeFileEdit(operations, i) ==
  \E j \in 1..(i - 1) :
    /\ IsWholeFileEdit(operations[j])
    /\ operations[j].filePath = operations[i].filePath
    /\ \A k \in (j + 1)..(i - 1) :
         ~(isPartialEdit(operations[k])
           /\ operations[k].filePath = operations[i].filePath)

\* C30: a whole-file edit of path p leaves the cumulative delta of p at 0
\* and the delta of every other path as it was, and the next ranged edit of
\* p in the plan replaces the lines of its literal bounds.
C30_WholeFileEditResetsDelta ==
  [][RunsOp =>
       LET op == ex.executedOperations[ex.i]
       IN  /\ IsWholeFileEdit(op) =>
                /\ ex'.fileDeltas[op.filePath] = 0
                /\ \A q \in Paths \ {op.filePath} :
                     ex'.fileDeltas[q] = ex.fileDeltas[q]
           /\ (isPartialEdit(op)
                 /\ FirstSinceWholeFileEdit(ex.executedOperations, ex.i)) =>
                fs' = replaceLines(fs, op.filePath, op.content,
                                   op.startLine, op.endLine)]_vars

\* A grows by one line, B grows by one line, A is overwritten, and the
\* ranged edit that follows replaces lines 1 and 2 of the new content, not
\* lines 2 and 3; the delta of B is still 1.
C30_RangedEditAfterOverwriteAtLiteralLines ==
  /\ pc = "exec"
  /\ ex.i = 5
  /\ ex.operations = <<EditLines("A", <<"X", "Y">>, 1, 2),
                       EditLines("B", <<"X", "Y">>, 1, 2),
                       EditFile("A", WholeContent),
                       EditLines("A", <<"Z">>, 1, 3)>>
  /\ fs["A"] = <<"Z", "w">>
  /\ ex.fileDeltas = [p \in Paths |-> IF p = "A" THEN -1 ELSE 1]

\* --------------------------------------------- edits that give one bound
\* EditOperationSchema makes startLine and endLine optional one by one: the
\* plans hold edits with both bounds, with none, and with one of the two.
BoundOps ==
  {EditLines(p, NewContent, s, e) :
     p \in Paths, s \in {NoLine, 2}, e \in {NoLine, 2}}

BoundPlans == SeqsUpTo(BoundOps, MaxOps) \ {<<>>}

NextBounds ==
  \/ /\ pc = "idle"
     /\ \E operations \in BoundPlans : ExecStart(operations)
  \/ \E continueExecution \in BOOLEAN : ExecOp(continueExecution)
  \/ ExecFinish

SpecBounds == Init /\ [][NextBounds]_vars

HasOneBound(op) ==
  op.type = "edit" /\ ((op.startLine = NoLine) # (op.endLine = NoLine))

\* C31: an edit that gives exactly one of startLine and endLine, run on an
\* existing file that differs from the edit's content, does not leave the
\* file holding the edit's content alone.
C31_OneBoundEditDoesNotOverwrite ==
  [][RunsOp =>
       LET op == ex.executedOperations[ex.i]
       IN  (/\ HasOneBound(op)
            /\ Exists(fs, op.filePath)
            /\ fs[op.filePath] # op.content)
           => fs'[op.filePath] # op.content]_vars

\* The paths named, as target or as rename source, by the operations of the
\* last executePlan call that ran and succeeded.
SucceededPaths ==
  TouchedPaths(
    SelectSeq(ex.executedOperations,
              LAMBDA op : \E k \in 1..Len(ex.executionResults) :
                            /\ ex.executionResults[k].success
                            /\ ex.executedOperations[
                                 ex.executionResults[k].index] = op))

\* C32: undoing the entry of a plan that failed, right after the plan, leaves
\* every path alone that only failed or never attempted operations of the
\* plan name.
C32_UndoLeavesUnexecutedTargets ==
  [][(UndoRuns /\ trail = <<Executed>> /\ ex.failedOps > 0)
       => \A p \in Paths \ SucceededPaths : fs'[p] = fs[p]]_vars

\* ------------------------------------------------- the diff of a ranged edit
\* Array.prototype.splice(start, deleteCount, ...items) on a copy of lines,
\* for start >= 0: start and deleteCount are clamped to the array.
Splice(lines, start, deleteCount, items) ==
  LET actualStart == Min(start, Len(lines))
      actualCount == Min(Max(deleteCount, 0), Len(lines) - actualStart)
  IN  SubSeq(lines, 1, actualStart) \o items
      \o SubSeq(lines, actualStart + actualCount + 1, Len(lines))

\* fullNewContent of reviewChangesInDetail: the proposed side of the diff.
\* The file and the content are split on '\n' alone; a range that the file
\* cannot hold, a missing or empty file and an absent bound give the
\* content of the operation as it is.
fullNewContent(op, tree) ==
  LET originalContentForDiff ==
        IF op.type = "edit" /\ Exists(tree, op.filePath)
        THEN tree[op.filePath] ELSE <<"">>
      ignoreLineRange ==
        /\ op.type = "edit"
        /\ ~Exists(tree, op.filePath)
        /\ op.startLine # NoLine \/ op.endLine # NoLine
      start == op.startLine - 1
      end   == op.endLine
  IN  IF /\ op.type = "edit"
         /\ originalContentForDiff # <<"">>
         /\ ~ignoreLineRange
         /\ op.startLine # NoLine
         /\ op.endLine # NoLine
         /\ ~(start < 0 \/ end < start
              \/ end > Len(originalContentForDiff) + 1)
      THEN Splice(originalContentForDiff, start, end - start, op.content)
      ELSE op.content

\* The choice 'review' on a plan of one operation, the operator saving
\* nothing: postFs keeps the tree as the proposed side of the diff shows it.
ShowDiff(op) ==
  /\ pc = "idle"
  /\ rv.currentOperations = <<>>
  /\ rv' = [NoReview EXCEPT !.currentOperations = <<op>>, !.choice = "review"]
  /\ postFs' = IF op.filePath \in Paths
               THEN WriteFile(fs, op.filePath, fullNewContent(op, fs))
               ELSE fs
  /\ UNCHANGED <<fs, history, now, pc, ex, out, preFs, trail, inv>>

\* The reviewed plan is applied; the steps are followed up to the write.
NextDiff ==
  \/ \E op \in DeltaEdits("A") \cup {OtherEdit} : ShowDiff(op)
  \/ /\ pc = "idle" /\ rv.currentOperations # <<>>
     /\ ExecStart(rv.currentOperations)
  \/ \E continueExecution \in BOOLEAN : ExecOp(continueExecution)

SpecDiff == InitDelta /\ [][NextDiff]_vars

\* C33: when a ranged edit of an existing file has been shown in the diff
\* and then executed alone, the file holds the content the diff proposed.
C33_ExecutionWritesTheShownContent ==
  (/\ pc = "exec"
   /\ ex.i = 2
   /\ rv.choice = "review"
   /\ ex.operations = rv.currentOperations
   /\ isPartialEdit(ex.operations[1])
   /\ Exists(preFs, ex.operations[1].filePath))
  => fs[ex.operations[1].filePath] = postFs[ex.operations[1].filePath]

\* A step of the choice 'review' in which the operator saves nothing in the
\* diff viewer.
ReviewsUnsaved ==
  /\ rv.pc = "menu"
  /\ pc = "idle"
  /\ rv.currentOperations # <<>>
  /\ rv'.choice = "review"
  /\ rv'.currentOperations =
       reviewChangesInDetail(rv.currentOperations, fs,
                             [i \in 1..Len(rv.currentOperations) |-> FALSE])

\* C34: the choice 'review' with nothing saved in the diff viewer leaves the
\* operation list of the loop as it was.
C34_UnsavedReviewKeepsPlan ==
  [][ReviewsUnsaved => rv'.currentOperations = rv.currentOperations]_vars

\* C35: executePlan entered with a plan that fails validation, forced from
\* the review loop, throws at once: the step changes no file and appends no
\* history entry, and no operation of the plan is run.
C35_InvalidPlanThrowsBeforeAnyChange ==
  [][(/\ rv.pc = "calling"
      /\ out.cmd = "apply"
      /\ ~validateOperations(rv.currentOperations)
      /\ out'.cmd = "exec")
       => /\ out'.threw
          /\ pc' = "idle"
          /\ fs' = fs
          /\ history' = history]_vars

\* A forced plan whose first operation is valid and whose second is not:
\* executePlan has thrown, A was not created and the log is empty.
C35_ForcedPlanLeftTreeAndLog ==
  /\ rv.pc = "calling"
  /\ rv.forceApply
  /\ rv.currentOperations = <<Create("A", NewContent),
                              EditLines("A", NewContent, 0 - 1, 1)>>
  /\ out.cmd = "exec"
  /\ out.threw
  /\ out.error = "invalid"
  /\ preFs["A"] = Absent
  /\ fs = preFs
  /\ history = <<>>

\* ------------------------------------------------- a retry after a failure
\* The review loop on plans that can fail half way, followed through one
\* more executePlan call than the log bound allows elsewhere.
RetryOps == {Create("A", NewContent), Delete("A"), Delete("B")}

RetryPlans == SeqsUpTo(RetryOps, MaxOps)

ReviewExecuteAgain ==
  /\ rv.pc = "calling"
  /\ out.cmd = "apply"
  /\ ExecStartUpTo(rv.currentOperations, MaxHistory + 1)

NextRetry ==
  \/ /\ rv.pc = "none"
     /\ \E operations \in RetryPlans : ReviewStart(operations)
  \/ \E forceApply \in BOOLEAN : ReviewApply(forceApply)
  \/ ReviewExecuteAgain
  \/ \E continueExecution \in BOOLEAN : ExecOp(continueExecution)
  \/ ExecFinish
  \/ \E retry \in BOOLEAN : ReviewReturn(retry)
  \/ \E saved \in [1..MaxOps -> BOOLEAN] : ReviewDetail(saved)
  \/ /\ rv.pc = "menu"
     /\ \E newPlan \in RetryPlans, continueAnyway \in BOOLEAN :
          ReviewEdit(newPlan, continueAnyway)
  \/ ReviewCancel

SpecRetry == Init /\ [][NextRetry]_vars

\* The last executePlan call of the loop ran and left a failure.
AppliedAndFailed == trail = <<Executed>> /\ ex.failedOps > 0

\* C36: when an apply has failed, the retry keeps the whole plan that was
\* applied as the current plan, the next apply passes the current plan on as
\* it is, and executePlan starts it at its first operation with no result
\* carried over.
C36_RetryRunsWholePlan ==
  [][AppliedAndFailed =>
       /\ (rv.pc = "calling" /\ rv'.pc = "menu")
            => rv'.currentOperations = ex.operations
       /\ (rv.pc = "menu" /\ rv'.pc = "calling")
            => rv'.currentOperations = rv.currentOperations
       /\ (rv.pc = "calling" /\ pc = "idle" /\ pc' = "exec")
            => /\ ex'.operations = rv.currentOperations
               /\ ex'.executedOperations = rv.currentOperations
               /\ ex'.i = 1
               /\ ex'.executionResults = <<>>
               /\ ex'.successfulOps = 0]_vars

\* [Delete B, Delete A] on a tree without A: B was deleted and the delete
\* of A failed; on the retry the delete of B has been run again and fails.
C36_SucceededDeleteRunAgain ==
  /\ rv.pc = "calling"
  /\ pc = "exec"
  /\ Len(history) = 1
  /\ history[1].operations[2].filePath = "B"
  /\ history[1].operations[2].originalContent = InitialContent["B"]
  /\ ex.operations = <<Delete("B"), Delete("A")>>
  /\ ex.i = 2
  /\ ex.executionResults = <<[index |-> 1, success |-> FALSE]>>

\* ------------------------------------------------------------ auto context
\* prepareAutoContext: pc is "round" at the test of the round loop,
\* "actions" inside the loop over the suggested actions, "return" after the
\* round loop, "done" when the call has returned and "threw" when
\* getAiResponse has thrown; ex holds the locals of the call.
DefaultMaxRounds == 10
DefaultMaxFiles == 20
MaxConfigured == 2
MaxActions == 2

\* A setting of the configuration file that is absent (or 0).
NotConfigured == 0

\* getAutoContextConfig: config.autoContext?.maxRounds || 10 and
\* config.autoContext?.maxFiles || 20.
getAutoContextConfig(autoContext) ==
  [maxRounds |-> IF autoContext.maxRounds # NotConfigured
                 THEN autoContext.maxRounds ELSE DefaultMaxRounds,
   maxFiles  |-> IF autoContext.maxFiles # NotConfigured
                 THEN autoContext.maxFiles ELSE DefaultMaxFiles]

\* A FileContextItem: start is NoLine when undefined, content tells whether
\* the content was read.
ContextItem(path, start, content) ==
  [path |-> path, start |-> start, content |-> content]

createFileContextPlaceholder(filePath) == ContextItem(filePath, NoLine, FALSE)

\* An ActionSuggestion; found is what a fileList or contentSearch action
\* matches, of which the files that exist are listed or searched.
Action(type, path, found) == [type |-> type, path |-> path, found |-> found]

\* items.findIndex(item => item.path === path && item.start === start), from
\* 1, and 0 for the -1 of a path and start not found.
IndexOfItem(items, path, start) ==
  IF \E k \in 1..Len(items) : items[k].path = path /\ items[k].start = start
  THEN CHOOSE k \in 1..Len(items) :
         /\ items[k].path = path /\ items[k].start = start
         /\ \A j \in 1..(k - 1) :
              ~(items[j].path = path /\ items[j].start = start)
  ELSE 0

\* items.find(item => item.path === path) as an index, 0 when there is none.
IndexOfPath(items, path) ==
  IF \E k \in 1..Len(items) : items[k].path = path
  THEN CHOOSE k \in 1..Len(items) :
         items[k].path = path /\ \A j \in 1..(k - 1) : items[j].path # path
  ELSE 0

\* validateFilePaths(items): the items whose path can be accessed.
validateFilePaths(items, tree) ==
  SelectSeq(items, LAMBDA item : Exists(tree, item.path))

\* executeSuggestedAction(action, currentContext): the items an action
\* gives; an error inside it is caught and gives none.
executeSuggestedAction(action, currentContext, tree) ==
  LET known == IndexOfPath(currentContext, action.path)
  IN  CASE action.type = "addFile" ->
             IF action.path = NoPath \/ known # 0 THEN <<>>
             ELSE <<createFileContextPlaceholder(action.path)>>
        [] action.type = "readFile" ->
             IF action.path = NoPath THEN <<>>
             ELSE IF known # 0 /\ currentContext[known].content THEN <<>>
             ELSE IF ~Exists(tree, action.path) THEN <<>>
             ELSE <<ContextItem(action.path,
                                IF known # 0 THEN currentContext[known].start
                                ELSE NoLine,
                                TRUE)>>
        [] action.type = "fileList" ->
             LET files == validateFilePaths(action.found, tree)
             IN  [k \in 1..Len(files) |->
                    createFileContextPlaceholder(files[k].path)]
        [] action.type = "contentSearch" ->
             validateFilePaths(action.found, tree)
        [] OTHER -> <<>>

\* The loop over actionResults: an item with the path and start of a result
\* is replaced by it; a result whose path is not in the context is pushed.
RECURSIVE MergeResults(_, _)
MergeResults(currentContextItems, actionResults) ==
  IF actionResults = <<>> THEN currentContextItems
  ELSE LET resultItem == Head(actionResults)
           existingItemIndex ==
             IndexOfItem(currentContextItems, resultItem.path,
                         resultItem.start)
           merged ==
             IF existingItemIndex # 0
             THEN [currentContextItems EXCEPT ![existingItemIndex] = resultItem]
             ELSE IF \E k \in 1..Len(currentContextItems) :
                       currentContextItems[k].path = resultItem.path
                  THEN currentContextItems
                  ELSE Append(currentContextItems, resultItem)
       IN  MergeResults(merged, Tail(actionResults))

NoSuggestion == [sufficient |-> FALSE, suggestedActions |-> <<>>]

\* The test of the round loop, were one more round allowed.
RoundLoopContinues_OneMore(x) == x.round <= x.maxRounds + 1 /\ ~x.sufficient

\* round <= maxRounds && !sufficient
RoundLoopContinues(x) == x.round <= x.maxRounds /\ ~x.sufficient

\* One round up to the loop over the actions: getAiResponse is awaited (it
\* may throw), the answer is parsed (an answer that cannot be parsed
\* suggests nothing), and the round loop is left when the context is
\* reported sufficient or no action is suggested.
QueryRound(suggestion, threw) ==
  /\ pc = "round"
  /\ RoundLoopContinues(ex)
  /\ IF threw
     THEN /\ pc' = "threw"
          /\ ex' = [ex EXCEPT !.queries = @ + 1]
     ELSE /\ ex' = [ex EXCEPT !.queries = @ + 1,
                              !.suggestion = suggestion,
                              !.sufficient = suggestion.sufficient,
                              !.actions = IF suggestion.sufficient THEN <<>>
                                          ELSE suggestion.suggestedActions]
          /\ pc' = IF suggestion.sufficient \/ suggestion.suggestedActions = <<>>
                   THEN "return" ELSE "actions"
  /\ UNCHANGED <<fs, history, now, out, preFs, postFs, trail, rv, inv>>

\* One iteration of the loop over suggestion.suggestedActions; after the
\* last action, or when the context holds more than maxFiles items, the
\* round ends.
RunAction ==
  /\ pc = "actions"
  /\ ex.actions # <<>>
  /\ LET action == Head(ex.actions)
         isRemove == action.type = "removeFile"
         items ==
           IF isRemove
           THEN IF action.path # NoPath
                THEN SelectSeq(ex.currentContextItems,
                               LAMBDA item : item.path # action.path)
                ELSE ex.currentContextItems
           ELSE MergeResults(ex.currentContextItems,
                             executeSuggestedAction(action,
                                                    ex.currentContextItems, fs))
         limitReached == ~isRemove /\ Len(items) > ex.maxFiles
         roundEnds == limitReached \/ Tail(ex.actions) = <<>>
     IN  /\ ex' = [ex EXCEPT
                     !.currentContextItems = items,
                     !.actions = IF roundEnds THEN <<>> ELSE Tail(@),
                     !.round = IF roundEnds THEN @ + 1 ELSE @]
         /\ pc' = IF roundEnds THEN "round" ELSE "actions"
  /\ UNCHANGED <<fs, history, now, out, preFs, postFs, trail, rv, inv>>

\* After the round loop: the items are validated and returned.
ReturnContext ==
  /\ pc = "return" \/ (pc = "round" /\ ~RoundLoopContinues(ex))
  /\ ex' = [ex EXCEPT
              !.validItems = validateFilePaths(ex.currentContextItems, fs)]
  /\ pc' = "done"
  /\ UNCHANGED <<fs, history, now, out, preFs, postFs, trail, rv, inv>>

\* The settings, the actions and the answers the rounds are run with.
Configured == {NotConfigured} \cup 1..MaxConfigured
SuggestedActions ==
  {Action("addFile", p, <<>>) : p \in Paths}
  \cup {Action("readFile", "A", <<>>), Action("removeFile", "A", <<>>),
        Action("fileList", ".",
               <<createFileContextPlaceholder("A"),
                 createFileContextPlaceholder("B")>>),
        Action("contentSearch", ".", <<ContextItem("B", 1, TRUE)>>)}
Suggestions ==
  {[sufficient |-> s, suggestedActions |-> a] :
     s \in BOOLEAN, a \in SeqsUpTo(SuggestedActions, MaxActions)}

InitContext ==
  /\ fs \in InitialTrees
  /\ history = <<>>
  /\ now = 1
  /\ pc = "round"
  /\ \E autoContext \in [maxRounds : Configured, maxFiles : Configured] :
       ex = [maxRounds |-> getAutoContextConfig(autoContext).maxRounds,
             maxFiles |-> getAutoContextConfig(autoContext).maxFiles,
             round |-> 1, sufficient |-> FALSE,
             currentContextItems |-> <<>>, suggestion |-> NoSuggestion,
             actions |-> <<>>, queries |-> 0, validItems |-> <<>>]
  /\ out = Report("none")
  /\ preFs = fs
  /\ postFs = fs
  /\ trail = <<>>
  /\ rv = NoReview
  /\ inv = NoCalls

NextContext ==
  \/ \E suggestion \in Suggestions, threw \in BOOLEAN :
       QueryRound(suggestion, threw)
  \/ RunAction
  \/ ReturnContext

SpecContext == InitContext /\ [][NextContext]_vars

\* Every awaited call of prepareAutoContext settles, so the call goes on
\* as long as it has a step to take.
SpecContextFair == SpecContext /\ WF_vars(NextContext)

\* C38: at the test of every round and when prepareAutoContext has
\* returned, the context holds at most maxFiles items, and so does the
\* returned list.
C38_ContextWithinMaxFiles ==
  pc \in {"round", "return", "done"} =>
    /\ Len(ex.currentContextItems) <= ex.maxFiles
    /\ Len(ex.validItems) <= ex.maxFiles

\* A step in which getAiResponse is awaited once more.
Queries == ex'.queries = ex.queries + 1

\* C37: prepareAutoContext queries the model at most maxRounds times, leaves
\* the round loop on the answer that reports the context sufficient or
\* suggests no action, queries no more once it has left the loop, and
\* always comes to its end.
C37_AutoContextTerminates ==
  /\ [](ex.queries <= ex.maxRounds)
  /\ [][(/\ Queries
         /\ pc' # "threw"
         /\ \/ ex'.suggestion.sufficient
            \/ ex'.suggestion.suggestedActions = <<>>)
          => pc' = "return"]_vars
  /\ [][(pc \in {"return", "done", "threw"}) => (ex'.queries = ex.queries)]_vars
  /\ <>(pc \in {"done", "threw"})

\* Ten rounds are allowed; the second answer reports the context
\* sufficient and the call has returned the one item collected before it.
C37_StoppedOnSufficientAnswer ==
  /\ pc = "done"
  /\ ex.maxRounds = DefaultMaxRounds
  /\ ex.queries = 2
  /\ ex.sufficient
  /\ Len(ex.validItems) = 1

\* ------------------------------------------------------------ getAiResponse
\* getAiResponse(messages, retries): pc is "try" at the test of the retry
\* loop, "delay" during the backoff, "returned" and "threw" at the end of
\* the call; ex holds the locals and the outcomes of the requests made.
\* Responses are sequences of characters.
MaxRetries == 3

\* String.prototype.trim on a text of letters and spaces.
RECURSIVE TrimStart(_)
TrimStart(text) ==
  IF text # <<>> /\ Head(text) = " " THEN TrimStart(Tail(text)) ELSE text

RECURSIVE TrimEnd(_)
TrimEnd(text) ==
  IF text # <<>> /\ text[Len(text)] = " "
  THEN TrimEnd(SubSeq(text, 1, Len(text) - 1)) ELSE text

Trim(text) == TrimEnd(TrimStart(text))

\* The outcome of one streamAiResponse call: it throws, or gives a text.
RequestFailed == [threw |-> TRUE, response |-> <<>>]
Responded(text) == [threw |-> FALSE, response |-> text]

\* The test of the response, were any text taken for an answer.
IsValidResponse_AnyText(response) == TRUE

\* response && response.trim()
IsValidResponse(response) == response # <<>> /\ Trim(response) # <<>>

\* One iteration of the retry loop: the request is awaited; a valid
\* response is returned trimmed; otherwise the error is thrown on at the
\* last iteration and the backoff is awaited at the others.
Attempt(outcome) ==
  /\ pc = "try"
  /\ ex.i < ex.retries
  /\ LET valid == ~outcome.threw /\ IsValidResponse(outcome.response)
     IN  /\ ex' = [ex EXCEPT
                     !.outcomes = Append(@, outcome),
                     !.result = IF valid THEN Trim(outcome.response) ELSE @]
         /\ pc' = IF valid THEN "returned"
                  ELSE IF ex.i = ex.retries - 1 THEN "threw"
                  ELSE "delay"
  /\ UNCHANGED <<fs, history, now, out, preFs, postFs, trail, rv, inv>>

\* await delay(1000 * backoffTime), then i++.
Delay ==
  /\ pc = "delay"
  /\ ex' = [ex EXCEPT !.i = @ + 1]
  /\ pc' = "try"
  /\ UNCHANGED <<fs, history, now, out, preFs, postFs, trail, rv, inv>>

\* The throw after the loop, reached when the loop ends by its test.
ThrowAfterLoop ==
  /\ pc = "try"
  /\ ~(ex.i < ex.retries)
  /\ pc' = "threw"
  /\ UNCHANGED <<fs, history, now, ex, out, preFs, postFs, trail, rv, inv>>

Outcomes ==
  {RequestFailed}
  \cup {Responded(text) :
          text \in {<<>>, <<" ">>, <<"o">>, <<"o", "k">>,
                   <<" ", "o", "k", " ">>}}

InitNetwork ==
  /\ fs = InitialContent
  /\ history = <<>>
  /\ now = 1
  /\ pc = "try"
  /\ \E retries \in 0..MaxRetries :
       ex = [retries |-> retries, i |-> 0, outcomes |-> <<>>, result |-> <<>>]
  /\ out = Report("none")
  /\ preFs = fs
  /\ postFs = fs
  /\ trail = <<>>
  /\ rv = NoReview
  /\ inv = NoCalls

NextNetwork ==
  \/ \E outcome \in Outcomes : Attempt(outcome)
  \/ Delay
  \/ ThrowAfterLoop

SpecNetwork == InitNetwork /\ [][NextNetwork]_vars

\* The request threw, or gave a text that is empty once trimmed.
FailedOutcome(outcome) == outcome.threw \/ Trim(outcome.response) = <<>>

\* C39: getAiResponse makes at most retries requests; when it has returned,
\* the last request is the first that gave a non-empty response and the
\* result is that response trimmed; when it has thrown, retries requests
\* were made and each of them failed.
C39_BoundedRetriesFirstResponse ==
  /\ Len(ex.outcomes) <= ex.retries
  /\ \A k \in 1..(Len(ex.outcomes) - 1) : FailedOutcome(ex.outcomes[k])
  /\ pc = "returned" =>
       /\ ex.outcomes # <<>>
       /\ ~FailedOutcome(ex.outcomes[Len(ex.outcomes)])
       /\ ex.result = Trim(ex.outcomes[Len(ex.outcomes)].response)
       /\ ex.result # <<>>
  /\ pc = "threw" =>
       /\ Len(ex.outcomes) = ex.retries
       /\ \A k \in 1..Len(ex.outcomes) : FailedOutcome(ex.outcomes[k])

\* Three requests allowed: the first throws, the second gives a blank
\* text, the third gives " ok " and "ok" is returned.
C39_ThirdRequestReturned ==
  /\ pc = "returned"
  /\ ex.retries = 3
  /\ ex.outcomes = <<RequestFailed, Responded(<<" ">>),
                     Responded(<<" ", "o", "k", " ">>)>>
  /\ ex.result = <<"o", "k">>

====
